---- MODULE Spec2Model ----
(***************************************************************************)
(* Rule-based transliteration engine of xlit-tool: the substitution        *)
(* engine (utils.apply_replacements, utils.apply_regex_replacements), the  *)
(* shipped transliteration methods (Russian BGN, GOST 7.79-2000 B,         *)
(* Ukrainian National Standard, Georgian IC) and the case-match engine     *)
(* (utils.translit_word_cm, utils.transliterate_case_match).               *)
(*                                                                         *)
(* A text is a sequence of characters.  TLA+ strings are ASCII, so every   *)
(* non-ASCII character is written by its Unicode name: cy_tse / CY_TSE are *)
(* CYRILLIC SMALL / CAPITAL LETTER TSE, ka_an is GEORGIAN LETTER AN, KA_AN *)
(* is GEORGIAN MTAVRULI CAPITAL LETTER AN, rsquo / rdquo are U+2019 /      *)
(* U+201D, e_diaeresis / E_DIAERESIS are U+00EB / U+00CB.  ASCII           *)
(* characters stand for themselves, except U+0060, written grave.          *)
(***************************************************************************)
EXTENDS Integers, Sequences, FiniteSets, TLC

(***************************************************************************)
(* Bounds of the model.                                                    *)
(***************************************************************************)
\* longest input text that is drawn
MaxLen == 3
\* largest number of entries of a drawn character map
MaxKeys == 2
\* largest number of rules of a drawn rule list
MaxRules == 2

(***************************************************************************)
(* Characters and the Unicode properties str.isupper, str.upper,           *)
(* str.title and the regex class \w read from them.                        *)
(***************************************************************************)
\* a character is written as itself when it is ASCII and by the lower-case
\* or upper-case form of its Unicode name otherwise; "nl" is the line feed,
\* "nul" the control character U+0000, "breve" the combining breve U+0306
Char ==
  { "nl", "nul", "breve", " ", "'", "1", "A", "B", "C", "D", "E", "F", "G", "H", "I", "J", "K", "L", "M", "N", "O",
    "P", "Q", "R", "S", "T", "U", "V", "X", "Y", "Z", "_", "grave", "a", "b", "c", "d", "e", "f",
    "g", "h", "i", "j", "k", "l", "m", "n", "o", "p", "q", "r", "s", "t", "u", "v", "x", "y",
    "z", "E_DIAERESIS", "e_diaeresis", "CY_IO", "CY_UKRAINIAN_IE", "CY_BYELORUSSIAN_UKRAINIAN_I",
    "CY_YI", "CY_A", "CY_BE", "CY_VE", "CY_GHE", "CY_DE", "CY_IE", "CY_ZHE", "CY_ZE", "CY_I",
    "CY_SHORT_I", "CY_KA", "CY_EL", "CY_EM", "CY_EN", "CY_O", "CY_PE", "CY_ER", "CY_ES", "CY_TE",
    "CY_U", "CY_EF", "CY_HA", "CY_TSE", "CY_CHE", "CY_SHA", "CY_SHCHA", "CY_HARD_SIGN",
    "CY_YERU", "CY_SOFT_SIGN", "CY_E", "CY_YU", "CY_YA", "cy_a", "cy_be", "cy_ve", "cy_ghe",
    "cy_de", "cy_ie", "cy_zhe", "cy_ze", "cy_i", "cy_short_i", "cy_ka", "cy_el", "cy_em",
    "cy_en", "cy_o", "cy_pe", "cy_er", "cy_es", "cy_te", "cy_u", "cy_ef", "cy_ha", "cy_tse",
    "cy_che", "cy_sha", "cy_shcha", "cy_hard_sign", "cy_yeru", "cy_soft_sign", "cy_e", "cy_yu",
    "cy_ya", "cy_io", "cy_ukrainian_ie", "cy_byelorussian_ukrainian_i", "cy_yi",
    "CY_GHE_WITH_UPTURN", "cy_ghe_with_upturn", "ka_an", "ka_ban", "ka_gan", "ka_don", "ka_en",
    "ka_vin", "ka_zen", "ka_tan", "ka_in", "ka_kan", "ka_las", "ka_man", "ka_nar", "ka_on",
    "ka_par", "ka_zhar", "ka_rae", "ka_san", "ka_tar", "ka_un", "ka_phar", "ka_khar", "ka_ghan",
    "ka_qar", "ka_shin", "ka_chin", "ka_can", "ka_jil", "ka_cil", "ka_char", "ka_xan", "ka_jhan",
    "ka_hae", "KA_AN", "KA_BAN", "KA_GAN", "KA_DON", "KA_EN", "KA_VIN", "KA_ZEN", "KA_TAN",
    "KA_IN", "KA_KAN", "KA_LAS", "KA_MAN", "KA_NAR", "KA_ON", "KA_PAR", "KA_ZHAR", "KA_RAE",
    "KA_SAN", "KA_TAR", "KA_UN", "KA_PHAR", "KA_KHAR", "KA_GHAN", "KA_QAR", "KA_SHIN", "KA_CHIN",
    "KA_CAN", "KA_JIL", "KA_CIL", "KA_CHAR", "KA_XAN", "KA_JHAN", "KA_HAE", "rsquo", "rdquo" }

\* characters matched by \w (alphanumerics and the underscore)
WordChars ==
  { "1", "A", "B", "C", "D", "E", "F", "G", "H", "I", "J", "K", "L", "M", "N", "O", "P", "Q",
    "R", "S", "T", "U", "V", "X", "Y", "Z", "_", "a", "b", "c", "d", "e", "f", "g", "h", "i",
    "j", "k", "l", "m", "n", "o", "p", "q", "r", "s", "t", "u", "v", "x", "y", "z",
    "E_DIAERESIS", "e_diaeresis", "CY_IO", "CY_UKRAINIAN_IE", "CY_BYELORUSSIAN_UKRAINIAN_I",
    "CY_YI", "CY_A", "CY_BE", "CY_VE", "CY_GHE", "CY_DE", "CY_IE", "CY_ZHE", "CY_ZE", "CY_I",
    "CY_SHORT_I", "CY_KA", "CY_EL", "CY_EM", "CY_EN", "CY_O", "CY_PE", "CY_ER", "CY_ES", "CY_TE",
    "CY_U", "CY_EF", "CY_HA", "CY_TSE", "CY_CHE", "CY_SHA", "CY_SHCHA", "CY_HARD_SIGN",
    "CY_YERU", "CY_SOFT_SIGN", "CY_E", "CY_YU", "CY_YA", "cy_a", "cy_be", "cy_ve", "cy_ghe",
    "cy_de", "cy_ie", "cy_zhe", "cy_ze", "cy_i", "cy_short_i", "cy_ka", "cy_el", "cy_em",
    "cy_en", "cy_o", "cy_pe", "cy_er", "cy_es", "cy_te", "cy_u", "cy_ef", "cy_ha", "cy_tse",
    "cy_che", "cy_sha", "cy_shcha", "cy_hard_sign", "cy_yeru", "cy_soft_sign", "cy_e", "cy_yu",
    "cy_ya", "cy_io", "cy_ukrainian_ie", "cy_byelorussian_ukrainian_i", "cy_yi",
    "CY_GHE_WITH_UPTURN", "cy_ghe_with_upturn", "ka_an", "ka_ban", "ka_gan", "ka_don", "ka_en",
    "ka_vin", "ka_zen", "ka_tan", "ka_in", "ka_kan", "ka_las", "ka_man", "ka_nar", "ka_on",
    "ka_par", "ka_zhar", "ka_rae", "ka_san", "ka_tar", "ka_un", "ka_phar", "ka_khar", "ka_ghan",
    "ka_qar", "ka_shin", "ka_chin", "ka_can", "ka_jil", "ka_cil", "ka_char", "ka_xan", "ka_jhan",
    "ka_hae", "KA_AN", "KA_BAN", "KA_GAN", "KA_DON", "KA_EN", "KA_VIN", "KA_ZEN", "KA_TAN",
    "KA_IN", "KA_KAN", "KA_LAS", "KA_MAN", "KA_NAR", "KA_ON", "KA_PAR", "KA_ZHAR", "KA_RAE",
    "KA_SAN", "KA_TAR", "KA_UN", "KA_PHAR", "KA_KHAR", "KA_GHAN", "KA_QAR", "KA_SHIN", "KA_CHIN",
    "KA_CAN", "KA_JIL", "KA_CIL", "KA_CHAR", "KA_XAN", "KA_JHAN", "KA_HAE" }

\* cased characters that are uppercase
UppercaseChars ==
  { "A", "B", "C", "D", "E", "F", "G", "H", "I", "J", "K", "L", "M", "N", "O", "P", "Q", "R",
    "S", "T", "U", "V", "X", "Y", "Z", "E_DIAERESIS", "CY_IO", "CY_UKRAINIAN_IE",
    "CY_BYELORUSSIAN_UKRAINIAN_I", "CY_YI", "CY_A", "CY_BE", "CY_VE", "CY_GHE", "CY_DE", "CY_IE",
    "CY_ZHE", "CY_ZE", "CY_I", "CY_SHORT_I", "CY_KA", "CY_EL", "CY_EM", "CY_EN", "CY_O", "CY_PE",
    "CY_ER", "CY_ES", "CY_TE", "CY_U", "CY_EF", "CY_HA", "CY_TSE", "CY_CHE", "CY_SHA",
    "CY_SHCHA", "CY_HARD_SIGN", "CY_YERU", "CY_SOFT_SIGN", "CY_E", "CY_YU", "CY_YA",
    "CY_GHE_WITH_UPTURN", "KA_AN", "KA_BAN", "KA_GAN", "KA_DON", "KA_EN", "KA_VIN", "KA_ZEN",
    "KA_TAN", "KA_IN", "KA_KAN", "KA_LAS", "KA_MAN", "KA_NAR", "KA_ON", "KA_PAR", "KA_ZHAR",
    "KA_RAE", "KA_SAN", "KA_TAR", "KA_UN", "KA_PHAR", "KA_KHAR", "KA_GHAN", "KA_QAR", "KA_SHIN",
    "KA_CHIN", "KA_CAN", "KA_JIL", "KA_CIL", "KA_CHAR", "KA_XAN", "KA_JHAN", "KA_HAE" }

\* cased characters that are lowercase
LowercaseChars ==
  { "a", "b", "c", "d", "e", "f", "g", "h", "i", "j", "k", "l", "m", "n", "o", "p", "q", "r",
    "s", "t", "u", "v", "x", "y", "z", "e_diaeresis", "cy_a", "cy_be", "cy_ve", "cy_ghe",
    "cy_de", "cy_ie", "cy_zhe", "cy_ze", "cy_i", "cy_short_i", "cy_ka", "cy_el", "cy_em",
    "cy_en", "cy_o", "cy_pe", "cy_er", "cy_es", "cy_te", "cy_u", "cy_ef", "cy_ha", "cy_tse",
    "cy_che", "cy_sha", "cy_shcha", "cy_hard_sign", "cy_yeru", "cy_soft_sign", "cy_e", "cy_yu",
    "cy_ya", "cy_io", "cy_ukrainian_ie", "cy_byelorussian_ukrainian_i", "cy_yi",
    "cy_ghe_with_upturn", "ka_an", "ka_ban", "ka_gan", "ka_don", "ka_en", "ka_vin", "ka_zen",
    "ka_tan", "ka_in", "ka_kan", "ka_las", "ka_man", "ka_nar", "ka_on", "ka_par", "ka_zhar",
    "ka_rae", "ka_san", "ka_tar", "ka_un", "ka_phar", "ka_khar", "ka_ghan", "ka_qar", "ka_shin",
    "ka_chin", "ka_can", "ka_jil", "ka_cil", "ka_char", "ka_xan", "ka_jhan", "ka_hae" }

\* simple uppercase mapping (characters that str.upper changes)
UpperPairs ==
  { <<"a", "A">>, <<"b", "B">>, <<"c", "C">>, <<"d", "D">>, <<"e", "E">>, <<"f", "F">>,
    <<"g", "G">>, <<"h", "H">>, <<"i", "I">>, <<"j", "J">>, <<"k", "K">>, <<"l", "L">>,
    <<"m", "M">>, <<"n", "N">>, <<"o", "O">>, <<"p", "P">>, <<"q", "Q">>, <<"r", "R">>,
    <<"s", "S">>, <<"t", "T">>, <<"u", "U">>, <<"v", "V">>, <<"x", "X">>, <<"y", "Y">>,
    <<"z", "Z">>, <<"e_diaeresis", "E_DIAERESIS">>, <<"cy_a", "CY_A">>, <<"cy_be", "CY_BE">>,
    <<"cy_ve", "CY_VE">>, <<"cy_ghe", "CY_GHE">>, <<"cy_de", "CY_DE">>, <<"cy_ie", "CY_IE">>,
    <<"cy_zhe", "CY_ZHE">>, <<"cy_ze", "CY_ZE">>, <<"cy_i", "CY_I">>,
    <<"cy_short_i", "CY_SHORT_I">>, <<"cy_ka", "CY_KA">>, <<"cy_el", "CY_EL">>,
    <<"cy_em", "CY_EM">>, <<"cy_en", "CY_EN">>, <<"cy_o", "CY_O">>, <<"cy_pe", "CY_PE">>,
    <<"cy_er", "CY_ER">>, <<"cy_es", "CY_ES">>, <<"cy_te", "CY_TE">>, <<"cy_u", "CY_U">>,
    <<"cy_ef", "CY_EF">>, <<"cy_ha", "CY_HA">>, <<"cy_tse", "CY_TSE">>, <<"cy_che", "CY_CHE">>,
    <<"cy_sha", "CY_SHA">>, <<"cy_shcha", "CY_SHCHA">>, <<"cy_hard_sign", "CY_HARD_SIGN">>,
    <<"cy_yeru", "CY_YERU">>, <<"cy_soft_sign", "CY_SOFT_SIGN">>, <<"cy_e", "CY_E">>,
    <<"cy_yu", "CY_YU">>, <<"cy_ya", "CY_YA">>, <<"cy_io", "CY_IO">>,
    <<"cy_ukrainian_ie", "CY_UKRAINIAN_IE">>,
    <<"cy_byelorussian_ukrainian_i", "CY_BYELORUSSIAN_UKRAINIAN_I">>, <<"cy_yi", "CY_YI">>,
    <<"cy_ghe_with_upturn", "CY_GHE_WITH_UPTURN">>, <<"ka_an", "KA_AN">>, <<"ka_ban", "KA_BAN">>,
    <<"ka_gan", "KA_GAN">>, <<"ka_don", "KA_DON">>, <<"ka_en", "KA_EN">>, <<"ka_vin", "KA_VIN">>,
    <<"ka_zen", "KA_ZEN">>, <<"ka_tan", "KA_TAN">>, <<"ka_in", "KA_IN">>, <<"ka_kan", "KA_KAN">>,
    <<"ka_las", "KA_LAS">>, <<"ka_man", "KA_MAN">>, <<"ka_nar", "KA_NAR">>, <<"ka_on", "KA_ON">>,
    <<"ka_par", "KA_PAR">>, <<"ka_zhar", "KA_ZHAR">>, <<"ka_rae", "KA_RAE">>,
    <<"ka_san", "KA_SAN">>, <<"ka_tar", "KA_TAR">>, <<"ka_un", "KA_UN">>,
    <<"ka_phar", "KA_PHAR">>, <<"ka_khar", "KA_KHAR">>, <<"ka_ghan", "KA_GHAN">>,
    <<"ka_qar", "KA_QAR">>, <<"ka_shin", "KA_SHIN">>, <<"ka_chin", "KA_CHIN">>,
    <<"ka_can", "KA_CAN">>, <<"ka_jil", "KA_JIL">>, <<"ka_cil", "KA_CIL">>,
    <<"ka_char", "KA_CHAR">>, <<"ka_xan", "KA_XAN">>, <<"ka_jhan", "KA_JHAN">>,
    <<"ka_hae", "KA_HAE">> }

\* simple lowercase mapping (characters that str.lower changes)
LowerPairs ==
  { <<"A", "a">>, <<"B", "b">>, <<"C", "c">>, <<"D", "d">>, <<"E", "e">>, <<"F", "f">>,
    <<"G", "g">>, <<"H", "h">>, <<"I", "i">>, <<"J", "j">>, <<"K", "k">>, <<"L", "l">>,
    <<"M", "m">>, <<"N", "n">>, <<"O", "o">>, <<"P", "p">>, <<"Q", "q">>, <<"R", "r">>,
    <<"S", "s">>, <<"T", "t">>, <<"U", "u">>, <<"V", "v">>, <<"X", "x">>, <<"Y", "y">>,
    <<"Z", "z">>, <<"E_DIAERESIS", "e_diaeresis">>, <<"CY_IO", "cy_io">>,
    <<"CY_UKRAINIAN_IE", "cy_ukrainian_ie">>,
    <<"CY_BYELORUSSIAN_UKRAINIAN_I", "cy_byelorussian_ukrainian_i">>, <<"CY_YI", "cy_yi">>,
    <<"CY_A", "cy_a">>, <<"CY_BE", "cy_be">>, <<"CY_VE", "cy_ve">>, <<"CY_GHE", "cy_ghe">>,
    <<"CY_DE", "cy_de">>, <<"CY_IE", "cy_ie">>, <<"CY_ZHE", "cy_zhe">>, <<"CY_ZE", "cy_ze">>,
    <<"CY_I", "cy_i">>, <<"CY_SHORT_I", "cy_short_i">>, <<"CY_KA", "cy_ka">>,
    <<"CY_EL", "cy_el">>, <<"CY_EM", "cy_em">>, <<"CY_EN", "cy_en">>, <<"CY_O", "cy_o">>,
    <<"CY_PE", "cy_pe">>, <<"CY_ER", "cy_er">>, <<"CY_ES", "cy_es">>, <<"CY_TE", "cy_te">>,
    <<"CY_U", "cy_u">>, <<"CY_EF", "cy_ef">>, <<"CY_HA", "cy_ha">>, <<"CY_TSE", "cy_tse">>,
    <<"CY_CHE", "cy_che">>, <<"CY_SHA", "cy_sha">>, <<"CY_SHCHA", "cy_shcha">>,
    <<"CY_HARD_SIGN", "cy_hard_sign">>, <<"CY_YERU", "cy_yeru">>,
    <<"CY_SOFT_SIGN", "cy_soft_sign">>, <<"CY_E", "cy_e">>, <<"CY_YU", "cy_yu">>,
    <<"CY_YA", "cy_ya">>, <<"CY_GHE_WITH_UPTURN", "cy_ghe_with_upturn">>, <<"KA_AN", "ka_an">>,
    <<"KA_BAN", "ka_ban">>, <<"KA_GAN", "ka_gan">>, <<"KA_DON", "ka_don">>, <<"KA_EN", "ka_en">>,
    <<"KA_VIN", "ka_vin">>, <<"KA_ZEN", "ka_zen">>, <<"KA_TAN", "ka_tan">>, <<"KA_IN", "ka_in">>,
    <<"KA_KAN", "ka_kan">>, <<"KA_LAS", "ka_las">>, <<"KA_MAN", "ka_man">>,
    <<"KA_NAR", "ka_nar">>, <<"KA_ON", "ka_on">>, <<"KA_PAR", "ka_par">>,
    <<"KA_ZHAR", "ka_zhar">>, <<"KA_RAE", "ka_rae">>, <<"KA_SAN", "ka_san">>,
    <<"KA_TAR", "ka_tar">>, <<"KA_UN", "ka_un">>, <<"KA_PHAR", "ka_phar">>,
    <<"KA_KHAR", "ka_khar">>, <<"KA_GHAN", "ka_ghan">>, <<"KA_QAR", "ka_qar">>,
    <<"KA_SHIN", "ka_shin">>, <<"KA_CHIN", "ka_chin">>, <<"KA_CAN", "ka_can">>,
    <<"KA_JIL", "ka_jil">>, <<"KA_CIL", "ka_cil">>, <<"KA_CHAR", "ka_char">>,
    <<"KA_XAN", "ka_xan">>, <<"KA_JHAN", "ka_jhan">>, <<"KA_HAE", "ka_hae">> }

\* simple titlecase mapping (characters that str.title changes at a word start)
TitlePairs ==
  { <<"a", "A">>, <<"b", "B">>, <<"c", "C">>, <<"d", "D">>, <<"e", "E">>, <<"f", "F">>,
    <<"g", "G">>, <<"h", "H">>, <<"i", "I">>, <<"j", "J">>, <<"k", "K">>, <<"l", "L">>,
    <<"m", "M">>, <<"n", "N">>, <<"o", "O">>, <<"p", "P">>, <<"q", "Q">>, <<"r", "R">>,
    <<"s", "S">>, <<"t", "T">>, <<"u", "U">>, <<"v", "V">>, <<"x", "X">>, <<"y", "Y">>,
    <<"z", "Z">>, <<"e_diaeresis", "E_DIAERESIS">>, <<"cy_a", "CY_A">>, <<"cy_be", "CY_BE">>,
    <<"cy_ve", "CY_VE">>, <<"cy_ghe", "CY_GHE">>, <<"cy_de", "CY_DE">>, <<"cy_ie", "CY_IE">>,
    <<"cy_zhe", "CY_ZHE">>, <<"cy_ze", "CY_ZE">>, <<"cy_i", "CY_I">>,
    <<"cy_short_i", "CY_SHORT_I">>, <<"cy_ka", "CY_KA">>, <<"cy_el", "CY_EL">>,
    <<"cy_em", "CY_EM">>, <<"cy_en", "CY_EN">>, <<"cy_o", "CY_O">>, <<"cy_pe", "CY_PE">>,
    <<"cy_er", "CY_ER">>, <<"cy_es", "CY_ES">>, <<"cy_te", "CY_TE">>, <<"cy_u", "CY_U">>,
    <<"cy_ef", "CY_EF">>, <<"cy_ha", "CY_HA">>, <<"cy_tse", "CY_TSE">>, <<"cy_che", "CY_CHE">>,
    <<"cy_sha", "CY_SHA">>, <<"cy_shcha", "CY_SHCHA">>, <<"cy_hard_sign", "CY_HARD_SIGN">>,
    <<"cy_yeru", "CY_YERU">>, <<"cy_soft_sign", "CY_SOFT_SIGN">>, <<"cy_e", "CY_E">>,
    <<"cy_yu", "CY_YU">>, <<"cy_ya", "CY_YA">>, <<"cy_io", "CY_IO">>,
    <<"cy_ukrainian_ie", "CY_UKRAINIAN_IE">>,
    <<"cy_byelorussian_ukrainian_i", "CY_BYELORUSSIAN_UKRAINIAN_I">>, <<"cy_yi", "CY_YI">>,
    <<"cy_ghe_with_upturn", "CY_GHE_WITH_UPTURN">> }

PairMap(pairs) ==
  [c \in Char |-> IF \E p \in pairs : p[1] = c
                  THEN (CHOOSE p \in pairs : p[1] = c)[2] ELSE c]

UpperOf == PairMap(UpperPairs)

LowerOf == PairMap(LowerPairs)

TitleOf == PairMap(TitlePairs)

IsCased(c) == c \in UppercaseChars \cup LowercaseChars

\* IsUpper satisfied by a single uppercase character
IsUpper_AnyUpper(s) == \E i \in 1..Len(s) : s[i] \in UppercaseChars

\* str.isupper(): at least one cased character and no lowercase one
IsUpper(s) ==
  /\ \E i \in 1..Len(s) : s[i] \in UppercaseChars
  /\ \A i \in 1..Len(s) : s[i] \notin LowercaseChars

\* str.islower(): at least one cased character and no uppercase one
IsLower(s) ==
  /\ \E i \in 1..Len(s) : s[i] \in LowercaseChars
  /\ \A i \in 1..Len(s) : s[i] \notin UppercaseChars

\* str.upper()
Upper(s) == [i \in 1..Len(s) |-> UpperOf[s[i]]]

\* str.title(): a cased character is title-cased after an uncased one (or at
\* the start) and lower-cased after a cased one
Title(s) ==
  [i \in 1..Len(s) |->
     IF i > 1 /\ IsCased(s[i-1]) THEN LowerOf[s[i]] ELSE TitleOf[s[i]]]

\* the characters str.strip() and str.rstrip() remove
Whitespace == {" ", "nl"}

RECURSIVE RStrip(_)
\* str.rstrip()
RStrip(s) ==
  IF s # <<>> /\ s[Len(s)] \in Whitespace THEN RStrip(SubSeq(s, 1, Len(s) - 1))
  ELSE s

RECURSIVE Strip(_)
\* str.strip()
Strip(s) ==
  IF s # <<>> /\ Head(s) \in Whitespace THEN Strip(Tail(s))
  ELSE RStrip(s)

RECURSIVE Concat(_)
\* str.join of the empty separator
Concat(list) ==
  IF list = <<>> THEN <<>> ELSE Head(list) \o Concat(Tail(list))

(***************************************************************************)
(* The rule sets of the shipped methods.                                   *)
(***************************************************************************)
\* a dictionary value that is not a str (an int): pattern.sub cannot join it
\* into the result
NotStr == <<"not_a_str">>

\* a rewrite item that stands for the text of capture group 1
GROUP1 == "\\1"

\* the reference \2 of a replacement template
GROUP2 == "\\2"

\* a (compiled pattern, replacement) pair: bnd is a leading \b, pat the
\* character classes matched in sequence, group the position in pat of
\* capture group 1 (0: no group), repl the replacement template
Rule(bnd, pat, group, repl) ==
  [compiled |-> TRUE, bnd |-> bnd, pat |-> pat, group |-> group, repl |-> repl]

bgn_consonants ==
  { "cy_be", "cy_ve", "cy_ghe", "cy_de", "cy_zhe", "cy_ze", "cy_ka", "cy_el", "cy_em", "cy_en",
    "cy_pe", "cy_er", "cy_es", "cy_te", "cy_ef", "cy_ha", "cy_tse", "cy_che", "cy_sha",
    "cy_shcha", "CY_BE", "CY_VE", "CY_GHE", "CY_DE", "CY_ZHE", "CY_ZE", "CY_KA", "CY_EL",
    "CY_EM", "CY_EN", "CY_PE", "CY_ER", "CY_ES", "CY_TE", "CY_EF", "CY_HA", "CY_TSE", "CY_CHE",
    "CY_SHA", "CY_SHCHA" }

\* bgn_regex_patterns without the two rules for the letter io
bgn_regex_patterns_NoIo ==
  << Rule(FALSE, <<bgn_consonants, {"cy_ie"}>>, 1, <<GROUP1, "e">>),
     Rule(FALSE, <<bgn_consonants, {"CY_IE"}>>, 1, <<GROUP1, "E">>) >>

bgn_regex_patterns ==
  << Rule(FALSE, <<bgn_consonants, {"cy_ie"}>>, 1, <<GROUP1, "e">>),
     Rule(FALSE, <<bgn_consonants, {"CY_IE"}>>, 1, <<GROUP1, "E">>),
     Rule(FALSE, <<bgn_consonants, {"cy_io"}>>, 1, <<GROUP1, "e_diaeresis">>),
     Rule(FALSE, <<bgn_consonants, {"CY_IO"}>>, 1, <<GROUP1, "E_DIAERESIS">>) >>

bgn_char_map ==
  << <<<<"cy_a">>, <<"a">>>>, <<<<"cy_be">>, <<"b">>>>, <<<<"cy_ve">>, <<"v">>>>,
     <<<<"cy_ghe">>, <<"g">>>>, <<<<"cy_de">>, <<"d">>>>, <<<<"cy_ie">>, <<"y", "e">>>>,
     <<<<"cy_io">>, <<"y", "e_diaeresis">>>>, <<<<"cy_zhe">>, <<"z", "h">>>>,
     <<<<"cy_ze">>, <<"z">>>>, <<<<"cy_i">>, <<"i">>>>, <<<<"cy_short_i">>, <<"y">>>>,
     <<<<"cy_ka">>, <<"k">>>>, <<<<"cy_el">>, <<"l">>>>, <<<<"cy_em">>, <<"m">>>>,
     <<<<"cy_en">>, <<"n">>>>, <<<<"cy_o">>, <<"o">>>>, <<<<"cy_pe">>, <<"p">>>>,
     <<<<"cy_er">>, <<"r">>>>, <<<<"cy_es">>, <<"s">>>>, <<<<"cy_te">>, <<"t">>>>,
     <<<<"cy_u">>, <<"u">>>>, <<<<"cy_ef">>, <<"f">>>>, <<<<"cy_ha">>, <<"k", "h">>>>,
     <<<<"cy_tse">>, <<"t", "s">>>>, <<<<"cy_che">>, <<"c", "h">>>>,
     <<<<"cy_sha">>, <<"s", "h">>>>, <<<<"cy_shcha">>, <<"s", "h", "c", "h">>>>,
     <<<<"cy_hard_sign">>, <<"rdquo">>>>, <<<<"cy_yeru">>, <<"y">>>>,
     <<<<"cy_soft_sign">>, <<"rsquo">>>>, <<<<"cy_e">>, <<"e">>>>, <<<<"cy_yu">>, <<"y", "u">>>>,
     <<<<"cy_ya">>, <<"y", "a">>>>, <<<<"CY_A">>, <<"A">>>>, <<<<"CY_BE">>, <<"B">>>>,
     <<<<"CY_VE">>, <<"V">>>>, <<<<"CY_GHE">>, <<"G">>>>, <<<<"CY_DE">>, <<"D">>>>,
     <<<<"CY_IE">>, <<"Y", "e">>>>, <<<<"CY_IO">>, <<"Y", "e_diaeresis">>>>,
     <<<<"CY_ZHE">>, <<"Z", "h">>>>, <<<<"CY_ZE">>, <<"Z">>>>, <<<<"CY_I">>, <<"I">>>>,
     <<<<"CY_SHORT_I">>, <<"Y">>>>, <<<<"CY_KA">>, <<"K">>>>, <<<<"CY_EL">>, <<"L">>>>,
     <<<<"CY_EM">>, <<"M">>>>, <<<<"CY_EN">>, <<"N">>>>, <<<<"CY_O">>, <<"O">>>>,
     <<<<"CY_PE">>, <<"P">>>>, <<<<"CY_ER">>, <<"R">>>>, <<<<"CY_ES">>, <<"S">>>>,
     <<<<"CY_TE">>, <<"T">>>>, <<<<"CY_U">>, <<"U">>>>, <<<<"CY_EF">>, <<"F">>>>,
     <<<<"CY_HA">>, <<"K", "h">>>>, <<<<"CY_TSE">>, <<"T", "s">>>>,
     <<<<"CY_CHE">>, <<"C", "h">>>>, <<<<"CY_SHA">>, <<"S", "h">>>>,
     <<<<"CY_SHCHA">>, <<"S", "h", "c", "h">>>>, <<<<"CY_HARD_SIGN">>, <<"rdquo">>>>,
     <<<<"CY_YERU">>, <<"Y">>>>, <<<<"CY_SOFT_SIGN">>, <<"rsquo">>>>, <<<<"CY_E">>, <<"E">>>>,
     <<<<"CY_YU">>, <<"Y", "u">>>>, <<<<"CY_YA">>, <<"Y", "a">>>> >>

gost_char_map ==
  << <<<<"cy_a">>, <<"a">>>>, <<<<"cy_be">>, <<"b">>>>, <<<<"cy_ve">>, <<"v">>>>,
     <<<<"cy_ghe">>, <<"g">>>>, <<<<"cy_de">>, <<"d">>>>, <<<<"cy_ie">>, <<"e">>>>,
     <<<<"cy_io">>, <<"y", "o">>>>, <<<<"cy_zhe">>, <<"z", "h">>>>, <<<<"cy_ze">>, <<"z">>>>,
     <<<<"cy_i">>, <<"i">>>>, <<<<"cy_short_i">>, <<"j">>>>, <<<<"cy_ka">>, <<"k">>>>,
     <<<<"cy_el">>, <<"l">>>>, <<<<"cy_em">>, <<"m">>>>, <<<<"cy_en">>, <<"n">>>>,
     <<<<"cy_o">>, <<"o">>>>, <<<<"cy_pe">>, <<"p">>>>, <<<<"cy_er">>, <<"r">>>>,
     <<<<"cy_es">>, <<"s">>>>, <<<<"cy_te">>, <<"t">>>>, <<<<"cy_u">>, <<"u">>>>,
     <<<<"cy_ef">>, <<"f">>>>, <<<<"cy_ha">>, <<"x">>>>, <<<<"cy_che">>, <<"c", "h">>>>,
     <<<<"cy_sha">>, <<"s", "h">>>>, <<<<"cy_shcha">>, <<"s", "h", "h">>>>,
     <<<<"cy_hard_sign">>, <<"grave", "grave">>>>, <<<<"cy_yeru">>, <<"y", "grave">>>>,
     <<<<"cy_soft_sign">>, <<"grave">>>>, <<<<"cy_e">>, <<"e", "grave">>>>,
     <<<<"cy_yu">>, <<"y", "u">>>>, <<<<"cy_ya">>, <<"y", "a">>>>, <<<<"CY_A">>, <<"A">>>>,
     <<<<"CY_BE">>, <<"B">>>>, <<<<"CY_VE">>, <<"V">>>>, <<<<"CY_GHE">>, <<"G">>>>,
     <<<<"CY_DE">>, <<"D">>>>, <<<<"CY_IE">>, <<"E">>>>, <<<<"CY_IO">>, <<"Y", "o">>>>,
     <<<<"CY_ZHE">>, <<"Z", "h">>>>, <<<<"CY_ZE">>, <<"Z">>>>, <<<<"CY_I">>, <<"I">>>>,
     <<<<"CY_SHORT_I">>, <<"J">>>>, <<<<"CY_KA">>, <<"K">>>>, <<<<"CY_EL">>, <<"L">>>>,
     <<<<"CY_EM">>, <<"M">>>>, <<<<"CY_EN">>, <<"N">>>>, <<<<"CY_O">>, <<"O">>>>,
     <<<<"CY_PE">>, <<"P">>>>, <<<<"CY_ER">>, <<"R">>>>, <<<<"CY_ES">>, <<"S">>>>,
     <<<<"CY_TE">>, <<"T">>>>, <<<<"CY_U">>, <<"U">>>>, <<<<"CY_EF">>, <<"F">>>>,
     <<<<"CY_HA">>, <<"X">>>>, <<<<"CY_CHE">>, <<"C", "h">>>>, <<<<"CY_SHA">>, <<"S", "h">>>>,
     <<<<"CY_SHCHA">>, <<"S", "h", "h">>>>, <<<<"CY_HARD_SIGN">>, <<"grave", "grave">>>>,
     <<<<"CY_YERU">>, <<"Y", "grave">>>>, <<<<"CY_SOFT_SIGN">>, <<"grave">>>>,
     <<<<"CY_E">>, <<"E", "grave">>>>, <<<<"CY_YU">>, <<"Y", "u">>>>, <<<<"CY_YA">>, <<"Y", "a">>>> >>

\* gost_follow with the lower-case letters only
gost_follow_Lower == {"i", "e", "y", "j"}

gost_follow == {"i", "e", "y", "j", "I", "E", "Y", "J"}

\* the rule list with the bare rules declared before the context rules
gost_regex_patterns_BareFirst ==
  << Rule(FALSE, <<{"cy_tse"}>>, 0, <<"c", "z">>),
     Rule(FALSE, <<{"CY_TSE"}>>, 0, <<"C", "z">>),
     Rule(FALSE, <<{"cy_tse"}, gost_follow>>, 2, <<"c", GROUP1>>),
     Rule(FALSE, <<{"CY_TSE"}, gost_follow>>, 2, <<"C", GROUP1>>) >>

gost_regex_patterns ==
  << Rule(FALSE, <<{"cy_tse"}, gost_follow>>, 2, <<"c", GROUP1>>),
     Rule(FALSE, <<{"CY_TSE"}, gost_follow>>, 2, <<"C", GROUP1>>),
     Rule(FALSE, <<{"cy_tse"}>>, 0, <<"c", "z">>),
     Rule(FALSE, <<{"CY_TSE"}>>, 0, <<"C", "z">>) >>

uk_regex_patterns ==
  << Rule(FALSE, <<{"CY_ZE"}, {"cy_ghe"}>>, 0, <<"Z", "g", "h">>),
     Rule(FALSE, <<{"cy_ze"}, {"cy_ghe"}>>, 0, <<"z", "g", "h">>),
     Rule(FALSE, <<{"CY_ZE"}, {"CY_GHE"}>>, 0, <<"Z", "G", "H">>),
     Rule(FALSE, <<{"cy_ze"}, {"CY_GHE"}>>, 0, <<"z", "G", "h">>),
     Rule(TRUE, <<{"CY_UKRAINIAN_IE"}>>, 0, <<"Y", "e">>),
     Rule(TRUE, <<{"cy_ukrainian_ie"}>>, 0, <<"y", "e">>),
     Rule(TRUE, <<{"CY_YU"}>>, 0, <<"Y", "u">>),
     Rule(TRUE, <<{"cy_yu"}>>, 0, <<"y", "u">>),
     Rule(TRUE, <<{"CY_YA"}>>, 0, <<"Y", "a">>),
     Rule(TRUE, <<{"cy_ya"}>>, 0, <<"y", "a">>),
     Rule(TRUE, <<{"CY_YI"}>>, 0, <<"Y", "i">>),
     Rule(TRUE, <<{"cy_yi"}>>, 0, <<"y", "i">>),
     Rule(TRUE, <<{"CY_SHORT_I"}>>, 0, <<"Y">>),
     Rule(TRUE, <<{"cy_short_i"}>>, 0, <<"y">>) >>

uk_char_map ==
  << <<<<"CY_A">>, <<"A">>>>, <<<<"cy_a">>, <<"a">>>>, <<<<"CY_BE">>, <<"B">>>>,
     <<<<"cy_be">>, <<"b">>>>, <<<<"CY_VE">>, <<"V">>>>, <<<<"cy_ve">>, <<"v">>>>,
     <<<<"CY_GHE">>, <<"H">>>>, <<<<"cy_ghe">>, <<"h">>>>, <<<<"CY_GHE_WITH_UPTURN">>, <<"G">>>>,
     <<<<"cy_ghe_with_upturn">>, <<"g">>>>, <<<<"CY_DE">>, <<"D">>>>, <<<<"cy_de">>, <<"d">>>>,
     <<<<"CY_IE">>, <<"E">>>>, <<<<"cy_ie">>, <<"e">>>>, <<<<"CY_UKRAINIAN_IE">>, <<"I", "e">>>>,
     <<<<"cy_ukrainian_ie">>, <<"i", "e">>>>, <<<<"CY_ZHE">>, <<"Z", "h">>>>,
     <<<<"cy_zhe">>, <<"z", "h">>>>, <<<<"CY_ZE">>, <<"Z">>>>, <<<<"cy_ze">>, <<"z">>>>,
     <<<<"CY_I">>, <<"Y">>>>, <<<<"cy_i">>, <<"y">>>>,
     <<<<"CY_BYELORUSSIAN_UKRAINIAN_I">>, <<"I">>>>,
     <<<<"cy_byelorussian_ukrainian_i">>, <<"i">>>>, <<<<"CY_YI">>, <<"I">>>>,
     <<<<"cy_yi">>, <<"i">>>>, <<<<"CY_SHORT_I">>, <<"I">>>>, <<<<"cy_short_i">>, <<"i">>>>,
     <<<<"CY_KA">>, <<"K">>>>, <<<<"cy_ka">>, <<"k">>>>, <<<<"CY_EL">>, <<"L">>>>,
     <<<<"cy_el">>, <<"l">>>>, <<<<"CY_EM">>, <<"M">>>>, <<<<"cy_em">>, <<"m">>>>,
     <<<<"CY_EN">>, <<"N">>>>, <<<<"cy_en">>, <<"n">>>>, <<<<"CY_O">>, <<"O">>>>,
     <<<<"cy_o">>, <<"o">>>>, <<<<"CY_PE">>, <<"P">>>>, <<<<"cy_pe">>, <<"p">>>>,
     <<<<"CY_ER">>, <<"R">>>>, <<<<"cy_er">>, <<"r">>>>, <<<<"CY_ES">>, <<"S">>>>,
     <<<<"cy_es">>, <<"s">>>>, <<<<"CY_TE">>, <<"T">>>>, <<<<"cy_te">>, <<"t">>>>,
     <<<<"CY_U">>, <<"U">>>>, <<<<"cy_u">>, <<"u">>>>, <<<<"CY_EF">>, <<"F">>>>,
     <<<<"cy_ef">>, <<"f">>>>, <<<<"CY_HA">>, <<"K", "h">>>>, <<<<"cy_ha">>, <<"k", "h">>>>,
     <<<<"CY_TSE">>, <<"T", "s">>>>, <<<<"cy_tse">>, <<"t", "s">>>>,
     <<<<"CY_CHE">>, <<"C", "h">>>>, <<<<"cy_che">>, <<"c", "h">>>>,
     <<<<"CY_SHA">>, <<"S", "h">>>>, <<<<"cy_sha">>, <<"s", "h">>>>,
     <<<<"CY_SHCHA">>, <<"S", "h", "c", "h">>>>, <<<<"cy_shcha">>, <<"s", "h", "c", "h">>>>,
     <<<<"CY_SOFT_SIGN">>, <<>>>>, <<<<"cy_soft_sign">>, <<>>>>, <<<<"CY_YU">>, <<"I", "u">>>>,
     <<<<"cy_yu">>, <<"i", "u">>>>, <<<<"CY_YA">>, <<"I", "a">>>>, <<<<"cy_ya">>, <<"i", "a">>>>,
     <<<<"'">>, <<>>>>, <<<<"rsquo">>, <<>>>> >>

ka_char_map ==
  << <<<<"ka_an">>, <<"a">>>>, <<<<"ka_ban">>, <<"b">>>>, <<<<"ka_gan">>, <<"g">>>>,
     <<<<"ka_don">>, <<"d">>>>, <<<<"ka_en">>, <<"e">>>>, <<<<"ka_vin">>, <<"v">>>>,
     <<<<"ka_zen">>, <<"z">>>>, <<<<"ka_tan">>, <<"t">>>>, <<<<"ka_in">>, <<"i">>>>,
     <<<<"ka_kan">>, <<"k">>>>, <<<<"ka_las">>, <<"l">>>>, <<<<"ka_man">>, <<"m">>>>,
     <<<<"ka_nar">>, <<"n">>>>, <<<<"ka_on">>, <<"o">>>>, <<<<"ka_par">>, <<"p">>>>,
     <<<<"ka_zhar">>, <<"z", "h">>>>, <<<<"ka_rae">>, <<"r">>>>, <<<<"ka_san">>, <<"s">>>>,
     <<<<"ka_tar">>, <<"t">>>>, <<<<"ka_un">>, <<"u">>>>, <<<<"ka_phar">>, <<"p">>>>,
     <<<<"ka_khar">>, <<"k">>>>, <<<<"ka_ghan">>, <<"g", "h">>>>, <<<<"ka_qar">>, <<"q">>>>,
     <<<<"ka_shin">>, <<"s", "h">>>>, <<<<"ka_chin">>, <<"c", "h">>>>,
     <<<<"ka_can">>, <<"t", "s">>>>, <<<<"ka_jil">>, <<"d", "z">>>>,
     <<<<"ka_cil">>, <<"t", "s">>>>, <<<<"ka_char">>, <<"c", "h">>>>,
     <<<<"ka_xan">>, <<"k", "h">>>>, <<<<"ka_jhan">>, <<"j">>>>, <<<<"ka_hae">>, <<"h">>>> >>

\* the shipped method modules
Methods ==
  {"ru_cyr_en_bgn", "ru_cyr_en_gost_7_79_2000_system_b", "uk_cyr_en_nat_standard", "ka_en_ic"}

\* the char_map of a method module that is not shipped: one of its values
\* is not a str
faulty_char_map ==
  << <<<<"a">>, <<"c">>>>, <<<<"b">>, NotStr>> >>

\* the module-level regex_patterns of a method module (none in ka_en_ic)
RegexPatternsOf(m) ==
  CASE m = "ru_cyr_en_bgn" -> bgn_regex_patterns
    [] m = "ru_cyr_en_gost_7_79_2000_system_b" -> gost_regex_patterns
    [] m = "uk_cyr_en_nat_standard" -> uk_regex_patterns
    [] m = "ka_en_ic" -> <<>>
    [] m = "faulty" -> <<>>

\* the module-level char_map of a method module
CharMapOf(m) ==
  CASE m = "ru_cyr_en_bgn" -> bgn_char_map
    [] m = "ru_cyr_en_gost_7_79_2000_system_b" -> gost_char_map
    [] m = "uk_cyr_en_nat_standard" -> uk_char_map
    [] m = "ka_en_ic" -> ka_char_map
    [] m = "faulty" -> faulty_char_map

\* BodyOf with the two statements of the GOST module exchanged
BodyOf_RulesFirst(m) ==
  CASE m = "ru_cyr_en_bgn" -> <<"regex", "map">>
    [] m = "ru_cyr_en_gost_7_79_2000_system_b" -> <<"regex", "map">>
    [] m = "uk_cyr_en_nat_standard" -> <<"regex", "map">>
    [] m = "ka_en_ic" -> <<"map", "title">>
    [] m = "faulty" -> <<"map">>

\* the statements of a method module's transliterate(), in program order
BodyOf(m) ==
  CASE m = "ru_cyr_en_bgn" -> <<"regex", "map">>
    [] m = "ru_cyr_en_gost_7_79_2000_system_b" -> <<"map", "regex">>
    [] m = "uk_cyr_en_nat_standard" -> <<"regex", "map">>
    [] m = "ka_en_ic" -> <<"map", "title">>
    [] m = "faulty" -> <<"map">>

(***************************************************************************)
(* Substitution engine (utils.py).                                         *)
(***************************************************************************)
\* the key of the alternation that matches at position i: the alternatives
\* are tried in declaration order and the first that matches is taken
\* (0: no key matches at i)
KeyMatches(text, i, key) ==
  /\ i + Len(key) - 1 <= Len(text)
  /\ \A k \in 1..Len(key) : text[i + k - 1] = key[k]

\* FirstKey preferring the longest key that matches (leftmost-longest)
FirstKey_Longest(text, i, replacements) ==
  IF \E j \in 1..Len(replacements) : KeyMatches(text, i, replacements[j][1])
  THEN CHOOSE j \in 1..Len(replacements) :
         /\ KeyMatches(text, i, replacements[j][1])
         /\ \A h \in 1..Len(replacements) :
              KeyMatches(text, i, replacements[h][1])
                => Len(replacements[h][1]) <= Len(replacements[j][1])
  ELSE 0

FirstKey(text, i, replacements) ==
  IF \E j \in 1..Len(replacements) : KeyMatches(text, i, replacements[j][1])
  THEN CHOOSE j \in 1..Len(replacements) :
         /\ KeyMatches(text, i, replacements[j][1])
         /\ \A h \in 1..(j - 1) : ~KeyMatches(text, i, replacements[h][1])
  ELSE 0

RECURSIVE MapScan(_, _, _)
\* pattern.sub over the alternation of the keys: one left-to-right scan of
\* the source text that resumes after each match
MapScan(text, i, replacements) ==
  IF i > Len(text) THEN <<>>
  ELSE LET j == FirstKey(text, i, replacements)
       IN  IF j = 0
           THEN <<text[i]>> \o MapScan(text, i + 1, replacements)
           ELSE replacements[j][2]
                  \o MapScan(text, i + Len(replacements[j][1]), replacements)

RECURSIVE StrReplace(_, _, _, _)
\* str.replace(key, value) from position i on
StrReplace(text, i, key, value) ==
  IF i > Len(text) THEN <<>>
  ELSE IF KeyMatches(text, i, key)
       THEN value \o StrReplace(text, i + Len(key), key, value)
       ELSE <<text[i]>> \o StrReplace(text, i + 1, key, value)

RECURSIVE apply_ordered_replacements(_, _)
\* apply_replacements as one str.replace per key, each on the output of
\* the previous one
apply_ordered_replacements(src_text, replacements) ==
  IF replacements = <<>> THEN src_text
  ELSE apply_ordered_replacements(
         StrReplace(src_text, 1, Head(replacements)[1], Head(replacements)[2]),
         Tail(replacements))

apply_replacements(src_text, replacements) ==
  IF replacements = <<>> THEN src_text
  ELSE MapScan(src_text, 1, replacements)

\* ReplacementsRaise with the empty text rejected
ReplacementsRaise_Empty(src_text, replacements) == src_text = <<>>

RECURSIVE MapScanRaises(_, _, _)
\* the scan of MapScan meets a key whose value is not a str
MapScanRaises(text, i, replacements) ==
  IF i > Len(text) THEN FALSE
  ELSE LET j == FirstKey(text, i, replacements)
       IN  IF j = 0
           THEN MapScanRaises(text, i + 1, replacements)
           ELSE \/ replacements[j][2] = NotStr
                \/ MapScanRaises(text, i + Len(replacements[j][1]), replacements)

\* apply_replacements raises instead of returning: a text and a dictionary
\* of escaped keys always give a pattern that compiles, so it raises only
\* when pattern.sub does, on a matched key whose value is not a str (the
\* TypeError is re-raised as RuntimeError)
ReplacementsRaise(src_text, replacements) ==
  MapScanRaises(src_text, 1, replacements)

\* \b at position i: exactly one of the characters before and at i is a
\* word character (outside the text counts as a non-word character)
Boundary(text, i) ==
  (i > 1 /\ text[i - 1] \in WordChars)
    # (i <= Len(text) /\ text[i] \in WordChars)

RuleMatches(rule, text, i) ==
  /\ rule.bnd => Boundary(text, i)
  /\ i + Len(rule.pat) - 1 <= Len(text)
  /\ \A k \in 1..Len(rule.pat) : text[i + k - 1] \in rule.pat[k]

\* the replacement template expanded for the match at position i
Expand(rule, text, i) ==
  [k \in 1..Len(rule.repl) |->
     IF rule.repl[k] = GROUP1 THEN text[i + rule.group - 1] ELSE rule.repl[k]]

RECURSIVE RuleScan(_, _, _)
RuleScan(rule, text, i) ==
  IF i > Len(text) THEN <<>>
  ELSE IF RuleMatches(rule, text, i)
       THEN Expand(rule, text, i) \o RuleScan(rule, text, i + Len(rule.pat))
       ELSE <<text[i]>> \o RuleScan(rule, text, i + 1)

\* pattern.sub(replacement, src_text) for one rule
PatternSub(rule, text) == RuleScan(rule, text, 1)

\* the number of capture groups of the rule's pattern (one at most)
Groups(rule) == IF rule.group = 0 THEN 0 ELSE 1

\* RuleRaises without the check of the replacement template
RuleRaises_Uncompiled(rule) == ~rule.compiled

\* the rule makes the loop raise: its pattern is not a compiled regex (no
\* attribute sub, ValueError), or pattern.sub rejects the template because
\* it refers to a group the pattern does not have (re.error, raised when
\* the template is parsed, before the text is scanned)
RuleRaises(rule) ==
  \/ ~rule.compiled
  \/ \E k \in 1..Len(rule.repl) :
       \/ rule.repl[k] = GROUP1 /\ Groups(rule) < 1
       \/ rule.repl[k] = GROUP2 /\ Groups(rule) < 2

\* apply_regex_replacements raises instead of returning
RegexRaises(src_text, replacements) ==
  \E i \in 1..Len(replacements) : RuleRaises(replacements[i])

RECURSIVE apply_regex_replacements(_, _)
\* the for loop over the rules: each rule rewrites the text the previous
\* one left
apply_regex_replacements(src_text, replacements) ==
  IF replacements = <<>> THEN src_text
  ELSE apply_regex_replacements(PatternSub(Head(replacements), src_text),
                                Tail(replacements))

(***************************************************************************)
(* WORD_SPLIT_PATTERN.split: the text cut at every maximal run of non-word *)
(* characters, the runs themselves kept (capturing group).  The list       *)
(* starts and ends with a (possibly empty) word run.                       *)
(***************************************************************************)
RECURSIVE SplitScan(_, _, _, _)
SplitScan(text, i, words, inSep) ==
  IF i > Len(text)
  THEN IF inSep THEN Append(words, <<>>) ELSE words
  ELSE LET c == text[i]
           n == Len(words)
           sep == c \notin WordChars
       IN  IF sep = inSep
           THEN SplitScan(text, i + 1, [words EXCEPT ![n] = Append(@, c)], inSep)
           ELSE SplitScan(text, i + 1, Append(words, <<c>>), sep)

\* Split with a pattern that has no capturing group: the separators are lost
Split_NoCapture(text) ==
  LET all == SplitScan(text, 1, << <<>> >>, FALSE)
  IN  [k \in 1..((Len(all) + 1) \div 2) |-> all[2 * k - 1]]

Split(text) == SplitScan(text, 1, << <<>> >>, FALSE)

(***************************************************************************)
(* State.                                                                  *)
(***************************************************************************)
VARIABLES
  method,          \* the method module the call is made on
  regex_patterns,  \* its module-level rule list
  char_map,        \* its module-level character map
  body,            \* the statements of its transliterate()
  input,           \* the text the caller passes
  call,            \* the function the caller calls ("none": not yet called)
  pc,              \* position of the call
  stmt,            \* transliterate(): index in body of the next statement
  src_text,        \* transliterate(): the local src_text
  ri,              \* apply_regex_replacements(): index of the next rule
  words,           \* transliterate_case_match(): the token list
  outs,            \* transliterate_case_match(): outputs of the tokens so far
  cache,           \* the lru_cache of translit_word_cm, least recently used first
  maxsize,         \* its capacity
  lookups,         \* history: the calls of the wrapped translit_word_cm so far
  ncalls,          \* history: number of calls the caller has made on the engine
  result,          \* the value returned to the caller
  exc,             \* the exception raised to the caller ("none": none)
  trace,           \* history: the substitutions applied so far, in order
  method_name,     \* XlitToolModel.transliterate(): argument method_name
  raw_text,        \* XlitToolModel.transliterate(): argument text
  match_case,      \* XlitToolModel.transliterate(): argument match_case
  sanitize_input,  \* XlitToolModel.transliterate(): argument sanitize_input
  ret,             \* XlitToolModel.transliterate(): the tuple returned
  modules,         \* names of method_modules whose import succeeds
  package,         \* the transliteration_methods package can be imported
  _registry_instance,  \* the module global (0: None, else a registry's index)
  registries,      \* the MethodRegistry objects created so far
  threads,         \* per thread: position in get_method_registry() and locals
  discoveries,     \* history: number of runs of _discover_methods
  op,              \* the last public registry operation and its value
  view             \* the widgets of the window (XlitToolView)

\* the arguments and the return value of XlitToolModel.transliterate
model_vars == <<method_name, raw_text, match_case, sanitize_input, ret>>

\* the import system, the registry global, the registry objects, the
\* callers of get_method_registry and the window built on the registry
registry_vars ==
  <<modules, package, _registry_instance, registries, threads, discoveries, op,
    view>>

\* the lru_cache and its history
cache_vars == <<cache, maxsize, lookups, ncalls>>

\* the state of the engine and of the calls made on it
engine_vars ==
  <<method, regex_patterns, char_map, body, input, call, pc, stmt, src_text, ri,
    words, outs, cache_vars, result, exc, trace, model_vars>>

vars == <<engine_vars, registry_vars>>

\* the module state, fixed once the method module is loaded
module_vars == <<method, regex_patterns, char_map, body>>

\* the arguments of the call
call_vars == <<input, call>>

(***************************************************************************)
(* A method module's transliterate() as a function of its argument: the    *)
(* statements of the body applied in program order.                        *)
(***************************************************************************)
Statement(kind, text) ==
  CASE kind = "regex" -> apply_regex_replacements(text, regex_patterns)
    [] kind = "map" -> apply_replacements(text, char_map)
    [] kind = "title" -> Title(text)

StatementRaises(kind, text) ==
  CASE kind = "regex" -> RegexRaises(text, regex_patterns)
    [] kind = "map" -> ReplacementsRaise(text, char_map)
    [] kind = "title" -> FALSE

RECURSIVE RunBody(_, _)
RunBody(stmts, text) ==
  IF stmts = <<>> THEN text
  ELSE RunBody(Tail(stmts), Statement(Head(stmts), text))

RECURSIVE BodyRaises(_, _)
BodyRaises(stmts, text) ==
  IF stmts = <<>> THEN FALSE
  ELSE \/ StatementRaises(Head(stmts), text)
       \/ BodyRaises(Tail(stmts), Statement(Head(stmts), text))

\* the value method.transliterate(text) returns
transliterate(text) == RunBody(body, text)

\* method.transliterate(text) with every exception swallowed
TransliterateRaises_Swallowed(text) == FALSE

\* method.transliterate(text) raises instead of returning
TransliterateRaises(text) == BodyRaises(body, text)

\* translit_word_cm without the upper-casing branch
translit_word_cm_NoUpper(word) == transliterate(word)

\* translit_word_cm upper-casing every word
translit_word_cm_AlwaysUpper(word) == Upper(transliterate(word))

\* the body of translit_word_cm (the function that lru_cache wraps)
translit_word_cm(word) ==
  IF IsUpper(word) THEN Upper(transliterate(word)) ELSE transliterate(word)

\* translit_func applied to word tokens only, separators returned as they are
translit_func_SkipNonWord(word) ==
  IF word # <<>> /\ \A i \in 1..Len(word) : word[i] \notin WordChars
  THEN word
  ELSE translit_word_cm(word)

\* translit_func = partial(translit_word_cm, translit_method=translit_method)
translit_func(word) == translit_word_cm(word)

\* @lru_cache(maxsize=10000)
LRU_MAXSIZE == 10000

\* the lru_cache wrapper: the key is made of both arguments
CacheHit(word) ==
  \E k \in 1..Len(cache) : cache[k].word = word /\ cache[k].method = method

\* CacheIndex with the word as the whole key
CacheIndex_WordOnly(c, word) ==
  CHOOSE k \in 1..Len(c) : c[k].word = word

\* the position of the entry of the key
CacheIndex(c, word) ==
  CHOOSE k \in 1..Len(c) : c[k].word = word /\ c[k].method = method

\* a stored result is returned without a call
Cached(word) == cache[CacheIndex(cache, word)].value

\* CacheTouch that leaves the entry where it is
CacheTouch_NoMove(c, word) == c

\* a hit makes the entry the most recently used one
CacheTouch(c, word) ==
  LET k == CacheIndex(c, word)
  IN  SubSeq(c, 1, k - 1) \o SubSeq(c, k + 1, Len(c)) \o <<c[k]>>

\* a miss stores the result as the most recently used entry; a full cache
\* drops its least recently used entry for it
CacheStore(c, entry) ==
  IF Len(c) >= maxsize THEN Append(Tail(c), entry) ELSE Append(c, entry)

(***************************************************************************)
(* Inputs.                                                                 *)
(***************************************************************************)
\* the characters input texts are drawn from, per method: letters of the
\* method's alphabet in both cases, separators and characters the method
\* does not map
InputChars(m) ==
  CASE m = "ru_cyr_en_bgn" ->
         {"cy_tse", "CY_TSE", "cy_ie", "CY_IE", "CY_SHCHA", "cy_soft_sign", " ", "1", "e"}
    [] m = "ru_cyr_en_gost_7_79_2000_system_b" ->
         {"cy_tse", "CY_TSE", "cy_i", "CY_IE", "cy_a", "cy_soft_sign", " ", "1", "y"}
    [] m = "uk_cyr_en_nat_standard" ->
         {"cy_ze", "cy_ghe", "cy_ya", "CY_YA", "CY_TSE", "cy_soft_sign", "'", "rsquo", " ",
          "1"}
    [] m = "ka_en_ic" ->
         {"ka_an", "ka_zhar", "a", "A", "CY_TSE", "'", " ", "1"}

RECURSIVE Texts(_, _)
\* the texts of at most n characters of the set chars
Texts(chars, n) ==
  IF n = 0 THEN {<<>>}
  ELSE LET shorter == Texts(chars, n - 1)
       IN  shorter \cup {Append(t, c) : t \in shorter, c \in chars}

\* no call has been made on the engine
CallIdle ==
  /\ call = "none"
  /\ pc = "idle"
  /\ stmt = 0
  /\ src_text = <<>>
  /\ ri = 0
  /\ words = <<>>
  /\ outs = <<>>
  /\ result = <<>>
  /\ exc = "none"
  /\ trace = <<>>
  /\ lookups = <<>>
  /\ ncalls = 1

\* utils is freshly imported: the cache is empty
Idle ==
  /\ CallIdle
  /\ cache = <<>>
  /\ maxsize = LRU_MAXSIZE

\* no window has been created
NoView ==
  [language_combo |-> <<>>, language |-> 0, combo |-> <<>>, selection |-> 0,
   combo_enabled |-> FALSE, method_mapping |-> <<>>, checkbox |-> FALSE,
   checkbox_enabled |-> FALSE, text1 |-> <<>>, text2 |-> <<>>]

\* XlitToolModel.transliterate is not called
NoModelCall ==
  /\ method_name = <<>>
  /\ raw_text = <<>>
  /\ match_case = FALSE
  /\ sanitize_input = FALSE
  /\ ret = <<>>

\* method_registry is not imported: no registry, no caller
NoRegistry ==
  /\ modules = {}
  /\ package = TRUE
  /\ _registry_instance = 0
  /\ registries = <<>>
  /\ threads = <<>>
  /\ discoveries = 0
  /\ op = <<>>
  /\ view = NoView

\* a shipped method module is loaded and a caller holds a text for it
Init ==
  /\ method \in Methods
  /\ regex_patterns = RegexPatternsOf(method)
  /\ char_map = CharMapOf(method)
  /\ body = BodyOf(method)
  /\ input \in Texts(InputChars(method), MaxLen)
  /\ Idle
  /\ NoModelCall
  /\ NoRegistry

(***************************************************************************)
(* method.transliterate(input), statement by statement.                    *)
(***************************************************************************)
CallTransliterate ==
  /\ pc = "idle"
  /\ call' = "transliterate"
  /\ pc' = "body"
  /\ stmt' = 1
  /\ src_text' = input
  /\ UNCHANGED <<module_vars, input, ri, words, outs, cache_vars, result, exc, trace>>
  /\ UNCHANGED <<model_vars, registry_vars>>

\* src_text = apply_replacements(src_text, char_map)
ApplyReplacements ==
  /\ pc = "body"
  /\ stmt <= Len(body)
  /\ body[stmt] = "map"
  /\ IF ReplacementsRaise(src_text, char_map)
     THEN /\ pc' = "raised"
          /\ exc' = "RuntimeError"
          /\ UNCHANGED <<src_text, trace, stmt>>
     ELSE /\ src_text' = apply_replacements(src_text, char_map)
          /\ trace' = Append(trace, [op |-> "map", idx |-> 0,
                                     before |-> src_text, after |-> src_text'])
          /\ stmt' = stmt + 1
          /\ UNCHANGED <<pc, exc>>
  /\ UNCHANGED <<module_vars, call_vars, ri, words, outs, cache_vars, result>>
  /\ UNCHANGED <<model_vars, registry_vars>>

\* src_text = apply_regex_replacements(src_text, regex_patterns): entry
RegexEnter ==
  /\ pc = "body"
  /\ stmt <= Len(body)
  /\ body[stmt] = "regex"
  /\ pc' = "regex_loop"
  /\ ri' = 1
  /\ UNCHANGED <<module_vars, call_vars, stmt, src_text, words, outs, cache_vars, result,
                 exc, trace>>
  /\ UNCHANGED <<model_vars, registry_vars>>

\* RuleInput with every rule applied to the text the caller passed
RuleInput_Original(i, current) == input

\* the text rule number i of the loop is applied to
RuleInput(i, current) == current

\* one iteration of the for loop
RegexStep ==
  /\ pc = "regex_loop"
  /\ ri <= Len(regex_patterns)
  /\ IF RuleRaises(regex_patterns[ri])
     THEN /\ pc' = "raised"
          /\ exc' = "RuntimeError"
          /\ UNCHANGED <<src_text, trace, ri>>
     ELSE /\ src_text' = PatternSub(regex_patterns[ri], RuleInput(ri, src_text))
          /\ trace' = Append(trace, [op |-> "rule", idx |-> ri,
                                     before |-> src_text, after |-> src_text'])
          /\ ri' = ri + 1
          /\ UNCHANGED <<pc, exc>>
  /\ UNCHANGED <<module_vars, call_vars, stmt, words, outs, cache_vars, result>>
  /\ UNCHANGED <<model_vars, registry_vars>>

\* the loop is exhausted: return src_text
RegexReturn ==
  /\ pc = "regex_loop"
  /\ ri > Len(regex_patterns)
  /\ pc' = "body"
  /\ ri' = 0
  /\ stmt' = stmt + 1
  /\ UNCHANGED <<module_vars, call_vars, src_text, words, outs, cache_vars, result, exc,
                 trace>>
  /\ UNCHANGED <<model_vars, registry_vars>>

\* return src_text.title()   (ka_en_ic)
TitleStatement ==
  /\ pc = "body"
  /\ stmt <= Len(body)
  /\ body[stmt] = "title"
  /\ src_text' = Title(src_text)
  /\ trace' = Append(trace, [op |-> "title", idx |-> 0,
                             before |-> src_text, after |-> src_text'])
  /\ stmt' = stmt + 1
  /\ UNCHANGED <<module_vars, call_vars, pc, ri, words, outs, cache_vars, result, exc>>
  /\ UNCHANGED <<model_vars, registry_vars>>

\* return src_text
Return ==
  /\ pc = "body"
  /\ stmt > Len(body)
  /\ result' = src_text
  /\ pc' = "done"
  /\ UNCHANGED <<module_vars, call_vars, stmt, src_text, ri, words, outs, cache_vars, exc,
                 trace>>
  /\ UNCHANGED <<model_vars, registry_vars>>

(***************************************************************************)
(* transliterate_case_match(input, method), token by token.                *)
(***************************************************************************)
\* words = WORD_SPLIT_PATTERN.split(src_text)
CaseMatchSplit ==
  /\ pc = "idle"
  /\ call' = "transliterate_case_match"
  /\ words' = Split(input)
  /\ pc' = "cm_loop"
  /\ UNCHANGED <<module_vars, input, stmt, src_text, ri, outs, cache_vars, result, exc,
                 trace>>
  /\ UNCHANGED <<model_vars, registry_vars>>

\* translit_func(word) for the next element of words
CaseMatchWord ==
  /\ pc = "cm_loop"
  /\ Len(outs) < Len(words)
  /\ LET word == words[Len(outs) + 1]
     IN  IF CacheHit(word)
         THEN /\ outs' = Append(outs, Cached(word))
              /\ cache' = CacheTouch(cache, word)
              /\ lookups' = Append(lookups, [word |-> word, method |-> method,
                                             outcome |-> "hit"])
              /\ UNCHANGED <<trace, pc, exc>>
         ELSE IF TransliterateRaises(word)
         THEN /\ pc' = "raised"
              /\ exc' = "RuntimeError"
              /\ lookups' = Append(lookups, [word |-> word, method |-> method,
                                             outcome |-> "raise"])
              /\ UNCHANGED <<outs, cache, trace>>
         ELSE /\ outs' = Append(outs, translit_func(word))
              /\ cache' = CacheStore(cache, [word |-> word, method |-> method,
                                             value |-> translit_func(word)])
              /\ lookups' = Append(lookups, [word |-> word, method |-> method,
                                             outcome |-> "miss"])
              /\ trace' = Append(trace, [op |-> "method", idx |-> Len(outs) + 1,
                                         before |-> word,
                                         after |-> transliterate(word)])
              /\ UNCHANGED <<pc, exc>>
  /\ UNCHANGED <<module_vars, call_vars, stmt, src_text, ri, words, result>>
  /\ UNCHANGED <<maxsize, ncalls, model_vars, registry_vars>>

\* return the joined outputs
CaseMatchJoin ==
  /\ pc = "cm_loop"
  /\ Len(outs) = Len(words)
  /\ result' = Concat(outs)
  /\ pc' = "done"
  /\ UNCHANGED <<module_vars, call_vars, stmt, src_text, ri, words, outs, cache_vars, exc,
                 trace>>
  /\ UNCHANGED <<model_vars, registry_vars>>

Next ==
  \/ CallTransliterate
  \/ ApplyReplacements
  \/ RegexEnter
  \/ RegexStep
  \/ RegexReturn
  \/ TitleStatement
  \/ Return
  \/ CaseMatchSplit
  \/ CaseMatchWord
  \/ CaseMatchJoin

Spec == Init /\ [][Next]_vars

(***************************************************************************)
(* The substitution engine on its own: a caller applies                    *)
(* apply_replacements or apply_regex_replacements to a drawn text with a   *)
(* drawn character map or rule list.                                       *)
(***************************************************************************)
EngineChars == {"a", "b", "c"}

\* keys of the drawn maps: never empty; one key is a prefix of another
TestKeys == {<<"a">>, <<"b">>, <<"a", "b">>}

TestValues == {<<>>, <<"b">>, <<"c">>}

RECURSIVE TestMapsUpTo(_)
\* the dictionaries of at most n entries, as lists in declaration order
TestMapsUpTo(n) ==
  IF n = 0 THEN {<<>>}
  ELSE LET smaller == TestMapsUpTo(n - 1)
       IN  smaller \cup
           {Append(m, <<k, v>>) :
              m \in smaller, k \in TestKeys, v \in TestValues}

DistinctKeys(m) ==
  \A i, j \in 1..Len(m) : m[i][1] = m[j][1] => i = j

TestMaps == {m \in TestMapsUpTo(MaxKeys) : DistinctKeys(m)}

\* rules of the shapes the shipped rule lists use: a literal, a class with a
\* captured context, a word-boundary anchor
TestRules ==
  { Rule(FALSE, <<{"a"}>>, 0, <<"b">>),
    Rule(FALSE, <<{"b"}>>, 0, <<"c">>),
    Rule(FALSE, <<{"a", "b"}, {"c"}>>, 1, <<GROUP1, "a">>),
    Rule(TRUE, <<{"c"}>>, 0, <<"a", "b">>) }

RECURSIVE TestRuleLists(_)
TestRuleLists(n) ==
  IF n = 0 THEN {<<>>}
  ELSE LET shorter == TestRuleLists(n - 1)
       IN  shorter \cup {Append(l, r) : l \in shorter, r \in TestRules}

InitEngine ==
  /\ method = "engine"
  /\ \/ /\ body = <<"map">>
        /\ char_map \in TestMaps
        /\ regex_patterns = <<>>
     \/ /\ body = <<"regex">>
        /\ regex_patterns \in TestRuleLists(MaxRules)
        /\ char_map = <<>>
  /\ input \in Texts(EngineChars, MaxLen)
  /\ Idle
  /\ NoModelCall
  /\ NoRegistry

NextEngine ==
  \/ CallTransliterate
  \/ ApplyReplacements
  \/ RegexEnter
  \/ RegexStep
  \/ RegexReturn
  \/ Return

SpecEngine == InitEngine /\ [][NextEngine]_vars

(***************************************************************************)
(* A method module whose character map holds values that are not strings:  *)
(* its transliterate() raises on the texts in which such a key matches and *)
(* returns on the others.                                                  *)
(***************************************************************************)
FaultyChars == {"a", "b", " "}

FaultyKeys == {<<"a">>, <<"b">>, <<"a", "b">>}

FaultyValues == {<<"c">>, NotStr}

RECURSIVE FaultyMapsUpTo(_)
FaultyMapsUpTo(n) ==
  IF n = 0 THEN {<<>>}
  ELSE LET smaller == FaultyMapsUpTo(n - 1)
       IN  smaller \cup
           {Append(m, <<k, v>>) :
              m \in smaller, k \in FaultyKeys, v \in FaultyValues}

FaultyMaps ==
  {m \in FaultyMapsUpTo(MaxKeys) :
     DistinctKeys(m) /\ \E i \in 1..Len(m) : m[i][2] = NotStr}

InitFaulty ==
  /\ method = "faulty"
  /\ body = <<"map">>
  /\ char_map \in FaultyMaps
  /\ regex_patterns = <<>>
  /\ input \in Texts(FaultyChars, MaxLen)
  /\ Idle
  /\ NoModelCall
  /\ NoRegistry

NextFaulty ==
  \/ CallTransliterate
  \/ ApplyReplacements
  \/ Return
  \/ CaseMatchSplit
  \/ CaseMatchWord
  \/ CaseMatchJoin

SpecFaulty == InitFaulty /\ [][NextFaulty]_vars

(***************************************************************************)
(* Method registry (method_registry.py). A method name is the sequence of  *)
(* its words, brackets, arrows and spaces; a module name is one word.      *)
(***************************************************************************)
\* module name, full method name (a name is the sequence of its words,
\* brackets, arrows and spaces)
module_mapping ==
  <<
    <<"az_cyr_en_ic", <<"Azeri", " ", "(", "Cyrillic", ")", "-->", "English", " ", "(", "IC", ")">>>>,
    <<"be_cyr_en_ic", <<"Belarussian", " ", "(", "Cyrillic", ")", "-->", "English", " ", "(", "IC", ")">>>>,
    <<"bg_cyr_en_ic", <<"Bulgarian", " ", "(", "Cyrillic", ")", "-->", "English", " ", "(", "IC", ")">>>>,
    <<"ka_en_ic", <<"Georgian", " ", "(", "Cyrillic", ")", "-->", "English", " ", "(", "IC", ")">>>>,
    <<"kk_cyr_en_ic", <<"Kazakh", " ", "(", "Cyrillic", ")", "-->", "English", " ", "(", "IC", ")">>>>,
    <<"ky_cyr_en_ic", <<"Kyrghyz", " ", "(", "Cyrillic", ")", "-->", "English", " ", "(", "IC", ")">>>>,
    <<"mk_cyr_en_ic", <<"Macedonian", " ", "(", "Cyrillic", ")", "-->", "English", " ", "(", "IC", ")">>>>,
    <<"mn_cyr_en_mns", <<"Mongolian", " ", "(", "Cyrillic", ")", "-->", "English", " ", "(", "MNS", ")">>>>,
    <<"ru_cyr_chinese_en", <<"Russian", " ", "(", "Chinese", " ", "Cyrillic", ")", "-->", "English", " ", "(", "Pinyin", ")">>>>,
    <<"ru_cyr_japanese_en", <<"Russian", " ", "(", "Japanese", " ", "Cyrillic", ")", "-->", "English", " ", "(", "Hepburn", ")">>>>,
    <<"ru_cyr_en_ala_lc", <<"Russian", " ", "(", "Cyrillic", ")", "-->", "English", " ", "(", "ALA-LC", ")">>>>,
    <<"ru_cyr_en_bgn", <<"Russian", " ", "(", "Cyrillic", ")", "-->", "English", " ", "(", "BGN", ")">>>>,
    <<"ru_cyr_en_gost_7_79_2000_system_b", <<"Russian", " ", "(", "Cyrillic", ")", "-->", "English", " ", "(", "Gost", " ", "7.79-2000b", ")">>>>,
    <<"ru_cyr_en_ic", <<"Russian", " ", "(", "Cyrillic", ")", "-->", "English", " ", "(", "IC", ")">>>>,
    <<"ru_cyr_en_iso_9", <<"Russian", " ", "(", "Cyrillic", ")", "-->", "English", " ", "(", "ISO-9", ")">>>>,
    <<"ru_cyr_en_scientific", <<"Russian", " ", "(", "Cyrillic", ")", "-->", "English", " ", "(", "Scientific", ")">>>>,
    <<"sr_cyr_en_ic", <<"Serbian", " ", "(", "Cyrillic", ")", "-->", "English", " ", "(", "IC", ")">>>>,
    <<"tg_cyr_en_ic", <<"Tajik", " ", "(", "Cyrillic", ")", "-->", "English", " ", "(", "IC", ")">>>>,
    <<"tt_cyr_en_ic", <<"Tatar", " ", "(", "Cyrillic", ")", "-->", "English", " ", "(", "IC", ")">>>>,
    <<"tk_cyr_en_ic", <<"Turkmen", " ", "(", "Cyrillic", ")", "-->", "English", " ", "(", "IC", ")">>>>,
    <<"uk_cyr_en_ic", <<"Ukrainian", " ", "(", "Cyrillic", ")", "-->", "English", " ", "(", "IC", ")">>>>,
    <<"uk_cyr_en_nat_standard", <<"Ukrainian", " ", "(", "Cyrillic", ")", "-->", "English", " ", "(", "National", " ", "Standard", ")">>>>,
    <<"ukr_cyr_chinese_academic_en", <<"Ukrainian", " ", "(", "Chinese", " ", "Academic", ")", "-->", "English">>>>,
    <<"ug_cyr_en_ic", <<"Uyghur", " ", "(", "Cyrillic", ")", "-->", "English", " ", "(", "IC", ")">>>>,
    <<"uz_cyr_en_ic", <<"Uzbek", " ", "(", "Cyrillic", ")", "-->", "English", " ", "(", "IC", ")">>>> >>

\* language, the word its pattern asks the method name to start with
language_patterns ==
  <<
    <<"Azerbaijani", "Azeri">>,
    <<"Belarusian", "Belarussian">>,
    <<"Bulgarian", "Bulgarian">>,
    <<"Georgian", "Georgian">>,
    <<"Kazakh", "Kazakh">>,
    <<"Kyrgyz", "Kyrghyz">>,
    <<"Macedonian", "Macedonian">>,
    <<"Mongolian", "Mongolian">>,
    <<"Russian", "Russian">>,
    <<"Serbian", "Serbian">>,
    <<"Tajik", "Tajik">>,
    <<"Tatar", "Tatar">>,
    <<"Turkmen", "Turkmen">>,
    <<"Ukrainian", "Ukrainian">>,
    <<"Uyghur", "Uyghur">>,
    <<"Uzbek", "Uzbek">> >>

special_cases ==
  <<
    <<<<"Russian", " ", "(", "Chinese", " ", "Cyrillic", ")", "-->", "English", " ", "(", "Pinyin", ")">>,
      <<"Chinese", " ", "Pinyin", " ", "(", "for", " ", "Chinese", " ", "Cyrillic", " ", "text", ")">>>>,
    <<<<"Russian", " ", "(", "Japanese", " ", "Cyrillic", ")", "-->", "English", " ", "(", "Hepburn", ")">>,
      <<"Japanese", " ", "Hepburn", " ", "(", "for", " ", "Japanese", " ", "Cyrillic", " ", "text", ")">>>>,
    <<<<"Ukrainian", " ", "(", "Chinese", " ", "Academic", ")", "-->", "English">>,
      <<"Chinese", " ", "Academic">>>> >>

no_case_methods ==
  {
    <<"Russian", " ", "(", "Chinese", " ", "Cyrillic", ")", "-->", "English", " ", "(", "Pinyin", ")">>,
    <<"Georgian", " ", "(", "Cyrillic", ")", "-->", "English", " ", "(", "IC", ")">>,
    <<"Ukrainian", " ", "(", "Chinese", " ", "Academic", ")", "-->", "English">>,
    <<"Russian", " ", "(", "Japanese", " ", "Cyrillic", ")", "-->", "English", " ", "(", "Hepburn", ")">>,
    <<"Russian", " ", "(", "Cyrillic", ")", "-->", "English", " ", "(", "ISO-9", ")">> }

\* language name a method name starts with, language code
language_code_mapping ==
  <<
    <<"Azeri", "az">>,
    <<"Belarussian", "be">>,
    <<"Bulgarian", "bg">>,
    <<"Georgian", "ka">>,
    <<"Kazakh", "kk">>,
    <<"Kyrghyz", "ky">>,
    <<"Macedonian", "mk">>,
    <<"Mongolian", "mn">>,
    <<"Russian", "ru">>,
    <<"Serbian", "sr">>,
    <<"Tajik", "tg">>,
    <<"Tatar", "tt">>,
    <<"Turkmen", "tk">>,
    <<"Ukrainian", "uk">>,
    <<"Uyghur", "ug">>,
    <<"Uzbek", "uz">> >>

\* the method names in the order sorted() gives them
SortedNames ==
  <<
    <<"Azeri", " ", "(", "Cyrillic", ")", "-->", "English", " ", "(", "IC", ")">>,
    <<"Belarussian", " ", "(", "Cyrillic", ")", "-->", "English", " ", "(", "IC", ")">>,
    <<"Bulgarian", " ", "(", "Cyrillic", ")", "-->", "English", " ", "(", "IC", ")">>,
    <<"Georgian", " ", "(", "Cyrillic", ")", "-->", "English", " ", "(", "IC", ")">>,
    <<"Kazakh", " ", "(", "Cyrillic", ")", "-->", "English", " ", "(", "IC", ")">>,
    <<"Kyrghyz", " ", "(", "Cyrillic", ")", "-->", "English", " ", "(", "IC", ")">>,
    <<"Macedonian", " ", "(", "Cyrillic", ")", "-->", "English", " ", "(", "IC", ")">>,
    <<"Mongolian", " ", "(", "Cyrillic", ")", "-->", "English", " ", "(", "MNS", ")">>,
    <<"Russian", " ", "(", "Chinese", " ", "Cyrillic", ")", "-->", "English", " ", "(", "Pinyin", ")">>,
    <<"Russian", " ", "(", "Cyrillic", ")", "-->", "English", " ", "(", "ALA-LC", ")">>,
    <<"Russian", " ", "(", "Cyrillic", ")", "-->", "English", " ", "(", "BGN", ")">>,
    <<"Russian", " ", "(", "Cyrillic", ")", "-->", "English", " ", "(", "Gost", " ", "7.79-2000b", ")">>,
    <<"Russian", " ", "(", "Cyrillic", ")", "-->", "English", " ", "(", "IC", ")">>,
    <<"Russian", " ", "(", "Cyrillic", ")", "-->", "English", " ", "(", "ISO-9", ")">>,
    <<"Russian", " ", "(", "Cyrillic", ")", "-->", "English", " ", "(", "Scientific", ")">>,
    <<"Russian", " ", "(", "Japanese", " ", "Cyrillic", ")", "-->", "English", " ", "(", "Hepburn", ")">>,
    <<"Serbian", " ", "(", "Cyrillic", ")", "-->", "English", " ", "(", "IC", ")">>,
    <<"Tajik", " ", "(", "Cyrillic", ")", "-->", "English", " ", "(", "IC", ")">>,
    <<"Tatar", " ", "(", "Cyrillic", ")", "-->", "English", " ", "(", "IC", ")">>,
    <<"Turkmen", " ", "(", "Cyrillic", ")", "-->", "English", " ", "(", "IC", ")">>,
    <<"Ukrainian", " ", "(", "Chinese", " ", "Academic", ")", "-->", "English">>,
    <<"Ukrainian", " ", "(", "Cyrillic", ")", "-->", "English", " ", "(", "IC", ")">>,
    <<"Ukrainian", " ", "(", "Cyrillic", ")", "-->", "English", " ", "(", "National", " ", "Standard", ")">>,
    <<"Uyghur", " ", "(", "Cyrillic", ")", "-->", "English", " ", "(", "IC", ")">>,
    <<"Uzbek", " ", "(", "Cyrillic", ")", "-->", "English", " ", "(", "IC", ")">>,
    <<"faulty">> >>

\* module_mapping.get(module_name, module_name)
_module_to_method_name(module_name) ==
  IF \E i \in 1..Len(module_mapping) : module_mapping[i][1] = module_name
  THEN module_mapping[CHOOSE i \in 1..Len(module_mapping) :
                        module_mapping[i][1] = module_name][2]
  ELSE <<module_name>>

\* the empty dict
EmptyDict == [k \in {} |-> <<>>]

\* the fields __init__ creates before it fills them
NewRegistry ==
  [_methods |-> EmptyDict,
   _language_groups |-> EmptyDict,
   _display_names |-> EmptyDict,
   _no_case_match |-> {},
   _method_to_language |-> EmptyDict]

\* the for loop over method_modules: every module that imports is stored
\* under its method name, the others are skipped with a warning
_discover_methods(self, importable) ==
  LET found == {_module_to_method_name(m) : m \in importable}
  IN  [self EXCEPT !._methods =
         [n \in DOMAIN self._methods \cup found |->
            IF n \in found
            THEN CHOOSE m \in importable : _module_to_method_name(m) = n
            ELSE self._methods[n]]]

\* re.match of the pattern 'Word.*', str.startswith('Word')
StartsWith(name, word) == name # <<>> /\ name[1] = word

\* sorted() of a set of method names
Sorted(names) == SelectSeq(SortedNames, LAMBDA n : n \in names)

_organize_by_language(self) ==
  LET matching(i) ==
        {m \in DOMAIN self._methods : StartsWith(m, language_patterns[i][2])}
      found == {i \in 1..Len(language_patterns) : matching(i) # {}}
      langs == {language_patterns[i][1] : i \in found}
  IN  [self EXCEPT !._language_groups =
         [l \in DOMAIN self._language_groups \cup langs |->
            IF l \in langs
            THEN Sorted(matching(CHOOSE i \in found : language_patterns[i][1] = l))
            ELSE self._language_groups[l]]]

\* re.search(r'\(([^)]+)\)$', name): the positions of an opening bracket
\* from which a non-empty text without closing bracket runs up to a closing
\* bracket at the end of the name
BracketAt(name) ==
  {i \in 1..(Len(name) - 2) :
     /\ name[i] = "("
     /\ name[Len(name)] = ")"
     /\ \A k \in (i + 1)..(Len(name) - 1) : name[k] # ")"}

\* name.split('-->')[-1]: the text after the last arrow
AfterLastArrow(name) ==
  LET i == CHOOSE j \in 1..Len(name) :
             name[j] = "-->" /\ \A k \in (j + 1)..Len(name) : name[k] # "-->"
  IN  SubSeq(name, i + 1, Len(name))

\* the display name the loop body stores for one method name
DisplayNameOf(name) ==
  IF \E i \in 1..Len(special_cases) : special_cases[i][1] = name
  THEN special_cases[CHOOSE i \in 1..Len(special_cases) :
                       special_cases[i][1] = name][2]
  ELSE IF BracketAt(name) # {}
  THEN LET i == CHOOSE j \in BracketAt(name) : \A k \in BracketAt(name) : j <= k
       IN  SubSeq(name, i + 1, Len(name) - 1)
  ELSE IF \E j \in 1..Len(name) : name[j] = "-->"
  THEN Strip(AfterLastArrow(name))
  ELSE name

_generate_display_names(self) ==
  [self EXCEPT !._display_names =
     [n \in DOMAIN self._display_names \cup DOMAIN self._methods |->
        IF n \in DOMAIN self._methods THEN DisplayNameOf(n)
        ELSE self._display_names[n]]]

\* _identify_no_case_methods without the test of membership in _methods
_identify_no_case_methods_Unfiltered(self) ==
  [self EXCEPT !._no_case_match = no_case_methods]

_identify_no_case_methods(self) ==
  [self EXCEPT !._no_case_match =
     {m \in no_case_methods : m \in DOMAIN self._methods}]

\* the indexes of the language names a method name starts with
CodesAt(name) ==
  {i \in 1..Len(language_code_mapping) :
     StartsWith(name, language_code_mapping[i][1])}

\* the inner loop stops at the first language name the method name starts
\* with; a method name that starts with none gets no entry
_generate_language_codes(self) ==
  LET coded == {m \in DOMAIN self._methods : CodesAt(m) # {}}
  IN  [self EXCEPT !._method_to_language =
         [m \in DOMAIN self._method_to_language \cup coded |->
            IF m \in coded
            THEN language_code_mapping[CHOOSE i \in CodesAt(m) :
                                         \A k \in CodesAt(m) : i <= k][2]
            ELSE self._method_to_language[m]]]

\* the elements of a list
Elements(list) == {list[k] : k \in 1..Len(list)}

\* _validate_registry with the first violation raised on its own
_validate_registry_FailFast(self) ==
  LET errors ==
        {[kind |-> "display", language |-> "", method |-> m] :
           m \in DOMAIN self._methods \ DOMAIN self._display_names}
        \cup
        UNION {{[kind |-> "language", language |-> l, method |-> m] :
                  m \in Elements(self._language_groups[l]) \ DOMAIN self._methods} :
                 l \in DOMAIN self._language_groups}
        \cup
        {[kind |-> "no_case", language |-> "", method |-> m] :
           m \in self._no_case_match \ DOMAIN self._methods}
  IN  IF errors = {} THEN {} ELSE {CHOOSE e \in errors : TRUE}

\* the errors the three loops of _validate_registry collect: a method
\* without display name, a member of a language group that is no method, a
\* member of the no-case set that is no method
_validate_registry(self) ==
  {[kind |-> "display", language |-> "", method |-> m] :
     m \in DOMAIN self._methods \ DOMAIN self._display_names}
  \cup
  UNION {{[kind |-> "language", language |-> l, method |-> m] :
            m \in Elements(self._language_groups[l]) \ DOMAIN self._methods} :
           l \in DOMAIN self._language_groups}
  \cup
  {[kind |-> "no_case", language |-> "", method |-> m] :
     m \in self._no_case_match \ DOMAIN self._methods}

\* the fields of a registry after the five steps of __init__ that fill them
Populated(importable) ==
  _generate_language_codes(
    _identify_no_case_methods(
      _generate_display_names(
        _organize_by_language(
          _discover_methods(NewRegistry, importable)))))

(***************************************************************************)
(* Input validation and sanitization (input_validator.py).                 *)
(***************************************************************************)
MIN_TEXT_LENGTH == 1

MAX_TEXT_LENGTH == 250000

MAX_LINE_LENGTH == 10000

MAX_LINES == 5000

\* the argument None
None == <<"None">>

\* "Select method" as a method name
SelectMethod == <<"Select", " ", "method">>

RECURSIVE NFC(_)
\* unicodedata.normalize('NFC', text): a combining breve after a Cyrillic i
\* composes with it into the short i; no other pair of characters of Char
\* composes
NFC(t) ==
  IF Len(t) < 2 THEN t
  ELSE IF t[1] = "cy_i" /\ t[2] = "breve"
  THEN <<"cy_short_i">> \o NFC(SubSeq(t, 3, Len(t)))
  ELSE IF t[1] = "CY_I" /\ t[2] = "breve"
  THEN <<"CY_SHORT_I">> \o NFC(SubSeq(t, 3, Len(t)))
  ELSE <<t[1]>> \o NFC(Tail(t))

\* characters of a Unicode category that starts with C
ControlChars == {"nl", "nul"}

\* of these line feed, carriage return and tab are kept
allowed_control == {"nl"}

IsKept(c) == c \notin ControlChars \/ c \in allowed_control

RECURSIVE SplitLines(_)
\* text.split('\n')
SplitLines(t) ==
  IF \E i \in 1..Len(t) : t[i] = "nl"
  THEN LET i == CHOOSE j \in 1..Len(t) :
                  t[j] = "nl" /\ \A k \in 1..(j - 1) : t[k] # "nl"
       IN  <<SubSeq(t, 1, i - 1)>> \o SplitLines(SubSeq(t, i + 1, Len(t)))
  ELSE <<t>>

RECURSIVE JoinLines(_)
\* '\n'.join(lines)
JoinLines(lines) ==
  IF Len(lines) = 1 THEN lines[1]
  ELSE lines[1] \o <<"nl">> \o JoinLines(Tail(lines))

RECURSIVE LineFeedsFrom(_, _)
\* the length of the run of line feeds that starts at position i
LineFeedsFrom(t, i) ==
  IF i <= Len(t) /\ t[i] = "nl" THEN 1 + LineFeedsFrom(t, i + 1) ELSE 0

RECURSIVE CollapseFrom(_, _)
\* re.sub(r'\n{4,}', '\n\n\n', text) from position i on
CollapseFrom(t, i) ==
  IF i > Len(t) THEN <<>>
  ELSE IF LineFeedsFrom(t, i) >= 4
  THEN <<"nl", "nl", "nl">> \o CollapseFrom(t, i + LineFeedsFrom(t, i))
  ELSE <<t[i]>> \o CollapseFrom(t, i + 1)

\* sanitize_text(text) with preserve_formatting=True. None of the dangerous
\* patterns can match a text over Char: each needs "<", ":" or "=".
sanitize_text(t) ==
  IF t = <<>> THEN <<>>
  ELSE LET kept == SelectSeq(NFC(t), IsKept)
           lines == SplitLines(kept)
           stripped == [k \in 1..Len(lines) |-> RStrip(lines[k])]
       IN  CollapseFrom(JoinLines(stripped), 1)

\* validate_text_length with a text of blanks accepted
validate_text_length_AcceptBlank(t) ==
  IF t = <<>> THEN <<"Text must contain at least 1 character">> ELSE <<>>

\* the errors of validate_text_length(text)
validate_text_length(t) ==
  IF t = <<>> \/ Len(Strip(t)) < MIN_TEXT_LENGTH
  THEN <<"Text must contain at least 1 character">>
  ELSE LET lines == SplitLines(t)
       IN  (IF Len(t) > MAX_TEXT_LENGTH
            THEN <<"Text exceeds maximum length">> ELSE <<>>)
           \o (IF Len(lines) > MAX_LINES
               THEN <<"Text exceeds maximum of lines">> ELSE <<>>)
           \o (IF \E k \in 1..Len(lines) : Len(lines[k]) > MAX_LINE_LENGTH
               THEN <<"Lines exceed maximum length">> ELSE <<>>)

\* the errors of validate_method_name(method_name) for the set VALID_METHODS
validate_method_name(name, valid) ==
  IF name = <<>> \/ Strip(name) = <<>>
  THEN <<"Please select a transliteration method">>
  ELSE IF name = SelectMethod
  THEN <<"Please select a valid transliteration method">>
  ELSE IF name \notin valid
  THEN <<"Invalid transliteration method">>
  ELSE <<>>

\* validate_and_sanitize_input(text, method_name, sanitize)
validate_and_sanitize_input(t, name, sanitize, valid) ==
  LET method_errors == validate_method_name(name, valid)
  IN  IF t = None
      THEN [is_valid |-> FALSE,
            sanitized_text |-> t,
            errors |-> method_errors \o <<"Input text cannot be None">>,
            warnings |-> <<>>]
      ELSE LET sanitized == IF sanitize THEN sanitize_text(t) ELSE t
               length_errors == validate_text_length(sanitized)
           IN  [is_valid |-> method_errors = <<>> /\ length_errors = <<>>,
                sanitized_text |-> sanitized,
                errors |-> method_errors \o length_errors,
                warnings |->
                  IF sanitize /\ Len(sanitized) * 100 < Len(t) * 95
                  THEN <<"Text was modified during sanitization">>
                  ELSE <<>>]

(***************************************************************************)
(* XlitToolModel.transliterate (model.py): an XlitToolModel built on a     *)
(* Ready registry is called once with drawn arguments.                     *)
(***************************************************************************)
\* self.methods = self.registry.get_all_methods()
self_methods == registries[_registry_instance]._methods

\* self.validator.VALID_METHODS
VALID_METHODS == DOMAIN registries[_registry_instance]._methods

\* validation_result of the call
validation_result ==
  validate_and_sanitize_input(raw_text, method_name, sanitize_input, VALID_METHODS)

\* the try block up to the call of the engine: a failed validation or a
\* method that is not found returns, otherwise the engine is entered on the
\* sanitized text, through transliterate_case_match if match_case is set
ModelEnter ==
  /\ pc = "idle"
  /\ IF ~validation_result.is_valid
     THEN /\ ret' = <<FALSE, <<>>, validation_result.errors,
                      validation_result.warnings>>
          /\ pc' = "returned"
          /\ UNCHANGED <<module_vars, input, call, stmt, src_text, words>>
     ELSE IF method_name \notin DOMAIN self_methods
     THEN /\ ret' = <<FALSE, <<>>, <<"Transliteration method not found">>,
                      validation_result.warnings>>
          /\ pc' = "returned"
          /\ UNCHANGED <<module_vars, input, call, stmt, src_text, words>>
     ELSE /\ method' = self_methods[method_name]
          /\ regex_patterns' = RegexPatternsOf(method')
          /\ char_map' = CharMapOf(method')
          /\ body' = BodyOf(method')
          /\ input' = validation_result.sanitized_text
          /\ IF match_case
             THEN /\ call' = "transliterate_case_match"
                  /\ words' = Split(input')
                  /\ pc' = "cm_loop"
                  /\ UNCHANGED <<stmt, src_text>>
             ELSE /\ call' = "transliterate"
                  /\ stmt' = 1
                  /\ src_text' = input'
                  /\ pc' = "body"
                  /\ UNCHANGED words
          /\ UNCHANGED ret
  /\ UNCHANGED <<ri, outs, cache_vars, result, exc, trace>>
  /\ UNCHANGED <<method_name, raw_text, match_case, sanitize_input, registry_vars>>

\* return True, result, "", warnings
ModelReturn ==
  /\ pc = "done"
  /\ ret' = <<TRUE, result, <<>>, validation_result.warnings>>
  /\ pc' = "returned"
  /\ UNCHANGED <<module_vars, call_vars, stmt, src_text, ri, words, outs, cache_vars,
                 result, exc, trace>>
  /\ UNCHANGED <<method_name, raw_text, match_case, sanitize_input, registry_vars>>

\* the two except clauses
ModelExcept ==
  /\ pc = "raised"
  /\ ret' = <<FALSE, <<>>,
              IF exc = "AttributeError"
              THEN <<"The selected transliteration method is not properly configured">>
              ELSE <<"An unexpected error occurred during transliteration">>,
              <<>> >>
  /\ pc' = "returned"
  /\ UNCHANGED <<module_vars, call_vars, stmt, src_text, ri, words, outs, cache_vars,
                 result, exc, trace>>
  /\ UNCHANGED <<method_name, raw_text, match_case, sanitize_input, registry_vars>>

\* the modules of the package: the shipped ones and one that is not shipped
ModelModules == Methods \cup {"faulty"}

\* the registry the XlitToolModel was built on
ModelRegistry == Populated(ModelModules)

\* method names a caller may pass: the registered ones, the empty and the
\* blank name, the placeholder of the method list, an unregistered name
ModelNames ==
  DOMAIN ModelRegistry._methods
    \cup {<<>>, <<" ">>, SelectMethod, <<"unknown">>}

\* the characters the texts for a method name are drawn from, by the module
\* registered under the name
ModelChars(name) ==
  IF name \notin DOMAIN ModelRegistry._methods THEN {"a", " "}
  ELSE LET m == ModelRegistry._methods[name]
       IN  CASE m = "ru_cyr_en_bgn" -> {"cy_i", "breve", "CY_TSE", "nl"}
             [] m = "ru_cyr_en_gost_7_79_2000_system_b" -> {"cy_tse", "cy_i", " ", "nul"}
             [] m = "uk_cyr_en_nat_standard" -> {"cy_ya", "'", " ", "nl"}
             [] m = "ka_en_ic" -> {"ka_an", "a", " "}
             [] m = "faulty" -> {"a", "b", " ", "nul"}

InitModel ==
  /\ method = "none"
  /\ regex_patterns = <<>>
  /\ char_map = <<>>
  /\ body = <<>>
  /\ Idle
  /\ input = <<>>
  /\ method_name \in ModelNames
  /\ raw_text \in Texts(ModelChars(method_name), MaxLen) \cup {None}
  /\ match_case \in BOOLEAN
  /\ sanitize_input \in BOOLEAN
  /\ ret = <<>>
  /\ modules = ModelModules
  /\ package = TRUE
  /\ _registry_instance = 1
  /\ registries = <<ModelRegistry>>
  /\ threads = <<>>
  /\ discoveries = 1
  /\ op = <<>>
  /\ view = NoView

NextModel ==
  \/ ModelEnter
  \/ ApplyReplacements
  \/ RegexEnter
  \/ RegexStep
  \/ RegexReturn
  \/ TitleStatement
  \/ Return
  \/ CaseMatchWord
  \/ CaseMatchJoin
  \/ ModelReturn
  \/ ModelExcept

SpecModel == InitModel /\ [][NextModel]_vars

(***************************************************************************)
(* get_method_registry() (method_registry.py): threads call it; a call    *)
(* that finds the global None builds a MethodRegistry, step by step, and   *)
(* stores it in the global.                                                *)
(***************************************************************************)
\* the number of threads that call get_method_registry
NumThreads == 2

Threads == 1..NumThreads

\* the calls one thread makes at most
MaxCalls == 2

\* the modules method_modules may name: one with a mapping entry, one of
\* additional_methods, one without a mapping entry
RegistryModules ==
  {"ru_cyr_en_bgn", "ukr_cyr_chinese_academic_en", "faulty"}

\* a thread that has not called yet.  Of the call it is in: pc, the object
\* under construction (self), the value returned (ret), the errors raised,
\* what the call came after and the instances returned before it began
\* (seen).  Of its finished calls: their number, the instances they
\* returned (rets) and whether one raised (failed).
NotCalled ==
  [pc |-> "start", self |-> 0, ret |-> 0, errors |-> {}, after |-> "none",
   seen |-> {}, calls |-> 0, rets |-> {}, failed |-> FALSE]

\* the instances returned by the calls that have finished
Returned == UNION {threads[u].rets : u \in DOMAIN threads}

\* what a call that starts now comes after: a call that raised, else a call
\* that returned a registry, else neither
Before ==
  IF \E u \in DOMAIN threads : threads[u].failed THEN "failure"
  ELSE IF Returned # {} THEN "ready"
  ELSE "first"

\* Check with the test of the global left out
Check_Always(t) ==
  /\ threads[t].pc = "start"
  /\ threads' = [threads EXCEPT ![t].pc = "init", ![t].after = Before,
                                 ![t].seen = Returned, ![t].calls = @ + 1]
  /\ UNCHANGED <<modules, package, _registry_instance, registries, discoveries, op, view>>
  /\ UNCHANGED engine_vars

\* if _registry_instance is None
Check(t) ==
  /\ threads[t].pc = "start"
  /\ threads' = [threads EXCEPT
                   ![t].pc = IF _registry_instance = 0 THEN "init" ELSE "return",
                   ![t].after = Before,
                   ![t].seen = Returned,
                   ![t].calls = @ + 1]
  /\ UNCHANGED <<modules, package, _registry_instance, registries, discoveries, op, view>>
  /\ UNCHANGED engine_vars

\* MethodRegistry(): __init__ creates the five empty fields
Construct(t) ==
  /\ threads[t].pc = "init"
  /\ registries' = Append(registries, NewRegistry)
  /\ threads' = [threads EXCEPT ![t].pc = "discover", ![t].self = Len(registries) + 1]
  /\ UNCHANGED <<modules, package, _registry_instance, discoveries, op, view>>
  /\ UNCHANGED engine_vars

\* self._discover_methods(): the ImportError of the package is re-raised
Discover(t) ==
  /\ threads[t].pc = "discover"
  /\ discoveries' = discoveries + 1
  /\ IF package
     THEN /\ registries' = [registries EXCEPT
                              ![threads[t].self] = _discover_methods(@, modules)]
          /\ threads' = [threads EXCEPT ![t].pc = "organize"]
     ELSE /\ threads' = [threads EXCEPT ![t].pc = "failed", ![t].failed = TRUE]
          /\ UNCHANGED registries
  /\ UNCHANGED <<modules, package, _registry_instance, op, view>>
  /\ UNCHANGED engine_vars

\* self._organize_by_language()
Organize(t) ==
  /\ threads[t].pc = "organize"
  /\ registries' = [registries EXCEPT ![threads[t].self] = _organize_by_language(@)]
  /\ threads' = [threads EXCEPT ![t].pc = "display"]
  /\ UNCHANGED <<modules, package, _registry_instance, discoveries, op, view>>
  /\ UNCHANGED engine_vars

\* self._generate_display_names()
DisplayNames(t) ==
  /\ threads[t].pc = "display"
  /\ registries' = [registries EXCEPT ![threads[t].self] = _generate_display_names(@)]
  /\ threads' = [threads EXCEPT ![t].pc = "no_case"]
  /\ UNCHANGED <<modules, package, _registry_instance, discoveries, op, view>>
  /\ UNCHANGED engine_vars

\* self._identify_no_case_methods()
NoCase(t) ==
  /\ threads[t].pc = "no_case"
  /\ registries' = [registries EXCEPT ![threads[t].self] = _identify_no_case_methods(@)]
  /\ threads' = [threads EXCEPT ![t].pc = "codes"]
  /\ UNCHANGED <<modules, package, _registry_instance, discoveries, op, view>>
  /\ UNCHANGED engine_vars

\* self._generate_language_codes()
LanguageCodes(t) ==
  /\ threads[t].pc = "codes"
  /\ registries' = [registries EXCEPT ![threads[t].self] = _generate_language_codes(@)]
  /\ threads' = [threads EXCEPT ![t].pc = "validate"]
  /\ UNCHANGED <<modules, package, _registry_instance, discoveries, op, view>>
  /\ UNCHANGED engine_vars

\* self._validate_registry(): a non-empty error list is raised as one
\* ValueError, out of __init__ and out of get_method_registry
Validate(t) ==
  /\ threads[t].pc = "validate"
  /\ LET errors == _validate_registry(registries[threads[t].self])
     IN  threads' = [threads EXCEPT
                       ![t].pc = IF errors # {} THEN "failed" ELSE "assign",
                       ![t].failed = (@ \/ errors # {}),
                       ![t].errors = errors]
  /\ UNCHANGED <<modules, package, _registry_instance, registries, discoveries, op, view>>
  /\ UNCHANGED engine_vars

\* _registry_instance = MethodRegistry()
Assign(t) ==
  /\ threads[t].pc = "assign"
  /\ _registry_instance' = threads[t].self
  /\ threads' = [threads EXCEPT ![t].pc = "return"]
  /\ UNCHANGED <<modules, package, registries, discoveries, op, view>>
  /\ UNCHANGED engine_vars

\* return _registry_instance
ReturnInstance(t) ==
  /\ threads[t].pc = "return"
  /\ threads' = [threads EXCEPT ![t].pc = "done", ![t].ret = _registry_instance,
                                 ![t].rets = @ \cup {_registry_instance}]
  /\ UNCHANGED <<modules, package, _registry_instance, registries, discoveries, op, view>>
  /\ UNCHANGED engine_vars

\* the thread is about to call get_method_registry once more
Again(t) ==
  /\ threads[t].pc \in {"done", "failed"}
  /\ threads[t].calls < MaxCalls
  /\ threads' = [threads EXCEPT ![t].pc = "start", ![t].self = 0, ![t].ret = 0,
                                 ![t].errors = {}, ![t].after = "none",
                                 ![t].seen = {}]
  /\ UNCHANGED <<modules, package, _registry_instance, registries, discoveries, op, view>>
  /\ UNCHANGED engine_vars

\* the engine is not called
NoCall ==
  /\ method = "none"
  /\ regex_patterns = <<>>
  /\ char_map = <<>>
  /\ body = <<>>
  /\ input = <<>>
  /\ Idle
  /\ NoModelCall

\* the process has imported method_registry; nothing has called yet
InitRegistry ==
  /\ NoCall
  /\ package \in BOOLEAN
  /\ modules \in SUBSET RegistryModules
  /\ ~package => modules = {}
  /\ _registry_instance = 0
  /\ registries = <<>>
  /\ threads = [t \in Threads |-> NotCalled]
  /\ discoveries = 0
  /\ op = <<>>
  /\ view = NoView

NextRegistry ==
  \E t \in Threads :
    \/ Check(t)
    \/ Construct(t)
    \/ Discover(t)
    \/ Organize(t)
    \/ DisplayNames(t)
    \/ NoCase(t)
    \/ LanguageCodes(t)
    \/ Validate(t)
    \/ Assign(t)
    \/ ReturnInstance(t)
    \/ Again(t)

SpecRegistry == InitRegistry /\ [][NextRegistry]_vars

(***************************************************************************)
(* _validate_registry as a function of the object's fields.  The five fill *)
(* steps of the shipped __init__ derive every field from _methods, so they *)
(* never leave a violation; the fields of the object under validation are  *)
(* therefore drawn here (a changed table or an overridden fill step        *)
(* produces them), and the call of get_method_registry goes on from its    *)
(* validation step.                                                        *)
(***************************************************************************)
ValidateNames ==
  {<<"faulty">>,
   <<"Russian", " ", "(", "Cyrillic", ")", "-->", "English", " ", "(", "BGN", ")">>}

\* the module stored under a method name
ModuleOf(name) ==
  CHOOSE m \in RegistryModules : _module_to_method_name(m) = name

\* the objects _validate_registry is applied to
ValidateRegistries ==
  {[_methods |-> [m \in ms |-> ModuleOf(m)],
    _language_groups |-> g,
    _display_names |-> [m \in ds |-> DisplayNameOf(m)],
    _no_case_match |-> ns,
    _method_to_language |-> EmptyDict] :
     ms \in SUBSET ValidateNames,
     ds \in SUBSET ValidateNames,
     ns \in SUBSET ValidateNames,
     g \in {EmptyDict} \cup
           {[l \in {"Russian"} |-> Sorted(gs)] : gs \in SUBSET ValidateNames}}

\* thread 1 is inside MethodRegistry(), about to call _validate_registry
InitValidate ==
  /\ NoCall
  /\ package = TRUE
  /\ modules = {}
  /\ _registry_instance = 0
  /\ registries \in {<<r>> : r \in ValidateRegistries}
  /\ threads = [t \in Threads |->
                  IF t = 1
                  THEN [NotCalled EXCEPT !.pc = "validate", !.self = 1,
                                         !.after = "first", !.calls = 1]
                  ELSE NotCalled]
  /\ discoveries = 1
  /\ op = <<>>
  /\ view = NoView

NextValidate ==
  \/ Validate(1)
  \/ Assign(1)
  \/ ReturnInstance(1)

SpecValidate == InitValidate /\ [][NextValidate]_vars

(***************************************************************************)
(* Lookups of the public interface of MethodRegistry that the integrity    *)
(* of a registry is stated with.                                           *)
(***************************************************************************)
\* list(self._methods.keys()): the names in the list
get_method_names(self) == DOMAIN self._methods

\* self._language_groups.get(language, [])
get_methods_by_language(self, language) ==
  IF language \in DOMAIN self._language_groups
  THEN self._language_groups[language]
  ELSE <<>>

\* self._display_names.get(method_name, method_name)
get_display_name(self, name) ==
  IF name \in DOMAIN self._display_names THEN self._display_names[name] ELSE name

\* method_name not in self._no_case_match
should_enable_case_match(self, name) == name \notin self._no_case_match

(***************************************************************************)
(* The lru_cache over the life of a process: the caller makes several      *)
(* calls of transliterate_case_match, on either of two methods, and the    *)
(* cache is kept from one call to the next.  The capacity is the maxsize   *)
(* argument of lru_cache; CacheSize stands for it here so that more        *)
(* distinct keys than the cache holds occur within a few short texts (with *)
(* maxsize=10000 it takes a text of 10001 distinct tokens, which the       *)
(* 250000 characters the validator admits can hold).                       *)
(***************************************************************************)
CacheSize == 2

\* the calls the caller makes at most
MaxCacheCalls == 3

\* a method whose map never raises and the one whose map raises on b
CacheMethods == {"ka_en_ic", "faulty"}

CacheChars == {"a", "b", " "}

\* the texts of the calls after the first: one character at most
LaterTexts == Texts(CacheChars, 1)

InitCache ==
  /\ method \in CacheMethods
  /\ regex_patterns = RegexPatternsOf(method)
  /\ char_map = CharMapOf(method)
  /\ body = BodyOf(method)
  /\ input \in Texts(CacheChars, MaxLen)
  /\ CallIdle
  /\ cache = <<>>
  /\ maxsize = CacheSize
  /\ NoModelCall
  /\ NoRegistry

\* the call has returned or raised; the caller holds the next text and
\* method.  The cache and the histories are kept.
NextCall ==
  /\ pc \in {"done", "raised"}
  /\ ncalls < MaxCacheCalls
  /\ \E m \in CacheMethods :
       /\ method' = m
       /\ regex_patterns' = RegexPatternsOf(m)
       /\ char_map' = CharMapOf(m)
       /\ body' = BodyOf(m)
  /\ input' \in LaterTexts
  /\ call' = "none"
  /\ pc' = "idle"
  /\ words' = <<>>
  /\ outs' = <<>>
  /\ result' = <<>>
  /\ exc' = "none"
  /\ ncalls' = ncalls + 1
  /\ UNCHANGED <<stmt, src_text, ri, trace, cache, maxsize, lookups>>
  /\ UNCHANGED <<model_vars, registry_vars>>

NextCache ==
  \/ CaseMatchSplit
  \/ CaseMatchWord
  \/ CaseMatchJoin
  \/ NextCall

SpecCache == InitCache /\ [][NextCache]_vars

(***************************************************************************)
(* A method module whose rule list holds defective rules: a pattern given  *)
(* as a str instead of a compiled regex, a template that refers to a group *)
(* the pattern does not have.                                              *)
(***************************************************************************)
RuleChars == {"a", "b"}

\* a sound rule, the same rule with the pattern left uncompiled, a rule
\* with one group whose template names a second one, a rule without group
\* whose template names one
DefectRules ==
  { Rule(FALSE, <<{"a"}>>, 0, <<"b">>),
    [Rule(FALSE, <<{"a"}>>, 0, <<"b">>) EXCEPT !.compiled = FALSE],
    Rule(FALSE, <<{"a"}>>, 1, <<GROUP2>>),
    Rule(FALSE, <<{"b"}>>, 0, <<GROUP1, "a">>) }

RECURSIVE DefectRuleLists(_)
DefectRuleLists(n) ==
  IF n = 0 THEN {<<>>}
  ELSE LET shorter == DefectRuleLists(n - 1)
       IN  shorter \cup {Append(l, r) : l \in shorter, r \in DefectRules}

InitRules ==
  /\ method = "defect"
  /\ body = <<"regex">>
  /\ regex_patterns \in DefectRuleLists(MaxRules)
  /\ char_map = <<>>
  /\ input \in Texts(RuleChars, MaxLen)
  /\ Idle
  /\ NoModelCall
  /\ NoRegistry

NextRules ==
  \/ CallTransliterate
  \/ RegexEnter
  \/ RegexStep
  \/ RegexReturn
  \/ Return

SpecRules == InitRules /\ [][NextRules]_vars

(***************************************************************************)
(* ru_cyr_en_bgn.transliterate on texts of consonants, the letters ie and  *)
(* io in both cases, a vowel, short i, the two signs and a separator.      *)
(***************************************************************************)
BGNChars ==
  {"cy_be", "CY_SHCHA", "cy_ie", "CY_IE", "cy_io", "CY_IO", "cy_a", "cy_short_i",
   "cy_soft_sign", "cy_hard_sign", " "}

InitBGN ==
  /\ method = "ru_cyr_en_bgn"
  /\ regex_patterns = RegexPatternsOf(method)
  /\ char_map = CharMapOf(method)
  /\ body = BodyOf(method)
  /\ input \in Texts(BGNChars, MaxLen)
  /\ Idle
  /\ NoModelCall
  /\ NoRegistry

NextBGN ==
  \/ CallTransliterate
  \/ RegexEnter
  \/ RegexStep
  \/ RegexReturn
  \/ ApplyReplacements
  \/ Return

SpecBGN == InitBGN /\ [][NextBGN]_vars

(***************************************************************************)
(* The public lookups of a registry that get_method_registry has returned. *)
(* A lookup that returns a collection returns either a new object (a copy  *)
(* of a field) or the object a field holds; op records which, so that what *)
(* a caller does to the returned object can be followed.                   *)
(***************************************************************************)
\* the modules of module_mapping
MappedModules == {module_mapping[i][1] : i \in 1..Len(module_mapping)}

\* the modules from which the sets of importable modules are drawn
LookupModules ==
  {"ru_cyr_en_bgn", "ru_cyr_en_ic", "uk_cyr_en_ic", "ukr_cyr_chinese_academic_en"}

\* the sets of modules that import: all the mapped ones, or some of a few
LookupModuleSets == {MappedModules} \cup SUBSET LookupModules

\* the method names the lookups are called with
LookupNames ==
  {_module_to_method_name(m) :
     m \in LookupModules \cup {"ka_en_ic", "ru_cyr_chinese_en", "faulty"}}

\* the languages the lookups are called with
LookupLanguages == {"Russian", "Ukrainian", "Klingon"}

\* self._methods.copy()
get_all_methods(self) == self._methods

\* set(self._methods.keys())
get_valid_method_names(self) == DOMAIN self._methods

\* the loop over the language's group returns the first method whose
\* display name is the one given, whatever the language of the argument
get_method_from_display_name_AnyLanguage(self, display_name, language) ==
  LET all == SelectSeq(SortedNames, LAMBDA n :
               \E l \in DOMAIN self._language_groups :
                 n \in Elements(self._language_groups[l]))
      hits == {k \in 1..Len(all) : get_display_name(self, all[k]) = display_name}
  IN  IF hits # {}
      THEN all[CHOOSE k \in hits : \A h \in hits : k <= h]
      ELSE display_name

\* the loop over the language's group returns the first method whose
\* display name is the one given; without one, or without the group, the
\* display name itself is returned
get_method_from_display_name(self, display_name, language) ==
  LET group == get_methods_by_language(self, language)
      hits == {k \in 1..Len(group) : get_display_name(self, group[k]) = display_name}
  IN  IF language \in DOMAIN self._language_groups /\ hits # {}
      THEN group[CHOOSE k \in hits : \A h \in hits : k <= h]
      ELSE display_name

\* the registry the global holds
TheRegistry == registries[_registry_instance]

\* no lookup has been made
NoLookup == [name |-> "none", args |-> <<>>, value |-> <<>>, ref |-> "none"]

\* a lookup whose value is a new object
Fresh(name, args, value) ==
  [name |-> name, args |-> args, value |-> value, ref |-> "new"]

GetAllMethods ==
  /\ op' = Fresh("get_all_methods", <<>>, get_all_methods(TheRegistry))
  /\ UNCHANGED <<modules, package, _registry_instance, registries, threads, discoveries,
               view>>
  /\ UNCHANGED engine_vars

GetMethodNames ==
  /\ op' = Fresh("get_method_names", <<>>, get_method_names(TheRegistry))
  /\ UNCHANGED <<modules, package, _registry_instance, registries, threads, discoveries,
               view>>
  /\ UNCHANGED engine_vars

\* dict.get returns the list the dict holds, or the new list of its second
\* argument
GetMethodsByLanguage ==
  /\ \E language \in LookupLanguages :
       op' = [name |-> "get_methods_by_language",
              args |-> <<language>>,
              value |-> get_methods_by_language(TheRegistry, language),
              ref |-> IF language \in DOMAIN TheRegistry._language_groups
                      THEN "field" ELSE "new"]
  /\ UNCHANGED <<modules, package, _registry_instance, registries, threads, discoveries,
               view>>
  /\ UNCHANGED engine_vars

GetDisplayName ==
  /\ \E name \in LookupNames :
       op' = Fresh("get_display_name", <<name>>, get_display_name(TheRegistry, name))
  /\ UNCHANGED <<modules, package, _registry_instance, registries, threads, discoveries,
               view>>
  /\ UNCHANGED engine_vars

GetMethodFromDisplayName ==
  /\ \E name \in LookupNames, language \in LookupLanguages :
       op' = Fresh("get_method_from_display_name",
                   <<DisplayNameOf(name), language>>,
                   get_method_from_display_name(TheRegistry, DisplayNameOf(name),
                                                language))
  /\ UNCHANGED <<modules, package, _registry_instance, registries, threads, discoveries,
               view>>
  /\ UNCHANGED engine_vars

ShouldEnableCaseMatch ==
  /\ \E name \in LookupNames :
       op' = Fresh("should_enable_case_match", <<name>>,
                   should_enable_case_match(TheRegistry, name))
  /\ UNCHANGED <<modules, package, _registry_instance, registries, threads, discoveries,
               view>>
  /\ UNCHANGED engine_vars

GetValidMethodNames ==
  /\ op' = Fresh("get_valid_method_names", <<>>, get_valid_method_names(TheRegistry))
  /\ UNCHANGED <<modules, package, _registry_instance, registries, threads, discoveries,
               view>>
  /\ UNCHANGED engine_vars

\* thread 1 has called get_method_registry and holds the registry
InitLookup ==
  /\ NoCall
  /\ package = TRUE
  /\ modules \in LookupModuleSets
  /\ _registry_instance = 1
  /\ registries = <<Populated(modules)>>
  /\ threads = [t \in Threads |->
                  IF t = 1
                  THEN [NotCalled EXCEPT !.pc = "done", !.self = 1, !.ret = 1,
                                         !.after = "first", !.calls = 1,
                                         !.rets = {1}]
                  ELSE NotCalled]
  /\ discoveries = 1
  /\ op = NoLookup
  /\ view = NoView

NextLookup ==
  \/ GetAllMethods
  \/ GetMethodNames
  \/ GetMethodsByLanguage
  \/ GetDisplayName
  \/ GetMethodFromDisplayName
  \/ ShouldEnableCaseMatch
  \/ GetValidMethodNames

SpecLookup == InitLookup /\ [][NextLookup]_vars

(***************************************************************************)
(* The window (view.py) and its controller (controller.py).  The widgets   *)
(* are the fields of view: the items and the selection of the two Choice   *)
(* controls (0: no selection), the value and the enabled state of the      *)
(* check box, the two text controls.  Events are handled one at a time by  *)
(* the GUI thread: a handler runs only when pc is at the event loop, and   *)
(* the handler of the Transliterate button runs XlitToolModel.transliterate *)
(* to its return before the next event is taken.                           *)
(***************************************************************************)
\* UIStrings.SELECT_LANGUAGE
SELECT_LANGUAGE == "Select language"

\* the clicks on the Transliterate button that are followed
MaxClicks == 2

\* sorted(self._language_groups.keys()): the keys of language_patterns are
\* declared in sorted order
SortedLanguages == [i \in 1..Len(language_patterns) |-> language_patterns[i][1]]

\* [UIStrings.SELECT_LANGUAGE] + sorted(self._language_groups.keys())
get_languages(self) ==
  <<SELECT_LANGUAGE>> \o
    SelectSeq(SortedLanguages, LAMBDA l : l \in DOMAIN self._language_groups)

\* Clear, Append of every language, SetSelection(0)
set_languages(v, languages) ==
  [v EXCEPT !.language_combo = languages,
            !.language = IF Len(languages) > 0 THEN 1 ELSE 0]

\* Clear, then for every method Append of its display name and an entry of
\* method_mapping (a later method replaces the entry of an earlier one with
\* the same display name); Enable and SetSelection(0) if there are methods
set_transliteration_methods(v, methods, self) ==
  LET display == [k \in 1..Len(methods) |-> get_display_name(self, methods[k])]
      last(d) == CHOOSE k \in 1..Len(methods) :
                   display[k] = d /\ \A h \in (k + 1)..Len(methods) : display[h] # d
  IN  [v EXCEPT !.combo = display,
                !.method_mapping = IF methods = <<>> THEN <<>>
                                   ELSE [d \in Elements(display) |-> methods[last(d)]],
                !.combo_enabled = Len(methods) > 0,
                !.selection = IF Len(methods) > 0 THEN 1 ELSE 0]

\* self.checkbox.Enable(enabled)
set_match_case_enabled(v, enabled) == [v EXCEPT !.checkbox_enabled = enabled]

\* language_combo.GetStringSelection()
get_selected_language(v) ==
  IF v.language = 0 THEN "" ELSE v.language_combo[v.language]

\* self.method_mapping.get(display_name, display_name)
get_selected_method(v) ==
  LET display_name == IF v.selection = 0 THEN <<>> ELSE v.combo[v.selection]
  IN  IF display_name \in DOMAIN v.method_mapping
      THEN v.method_mapping[display_name]
      ELSE display_name

\* _handle_language_change that leaves the check box as it is
_handle_language_change_KeepEnabled(v) ==
  LET selected_language == get_selected_language(v)
  IN  IF selected_language # "" /\ selected_language # SELECT_LANGUAGE
      THEN set_transliteration_methods(
             v, get_methods_by_language(TheRegistry, selected_language), TheRegistry)
      ELSE set_transliteration_methods(v, <<>>, TheRegistry)

\* the methods of the selected language are put into the method control
\* and the check box is disabled
_handle_language_change(v) ==
  LET selected_language == get_selected_language(v)
  IN  IF selected_language # "" /\ selected_language # SELECT_LANGUAGE
      THEN set_match_case_enabled(
             set_transliteration_methods(
               v, get_methods_by_language(TheRegistry, selected_language), TheRegistry),
             FALSE)
      ELSE set_match_case_enabled(
             set_transliteration_methods(v, <<>>, TheRegistry), FALSE)

\* the check box is enabled if the selected method supports case matching
_handle_combobox_change(v) ==
  set_match_case_enabled(
    v, should_enable_case_match(TheRegistry, get_selected_method(v)))

\* the first index of an item in the items of a Choice control
IndexOf(items, item) ==
  CHOOSE i \in 1..Len(items) : items[i] = item /\ \A k \in 1..(i - 1) : items[k] # item

\* the saved language, if it is an item, is selected and handled as a
\* language change; then the saved method, if the method control holds it,
\* is selected and handled as a method change
restore_user_selections(v, last_language, last_method) ==
  LET v1 == IF last_language # "" /\ last_language \in Elements(v.language_combo)
            THEN _handle_language_change(
                   [v EXCEPT !.language = IndexOf(v.language_combo, last_language)])
            ELSE v
      names == {d \in DOMAIN v1.method_mapping : v1.method_mapping[d] = last_method}
  IN  IF last_language # "" /\ last_method # <<>> /\ names # {}
      THEN _handle_combobox_change(
             [v1 EXCEPT !.selection = IndexOf(v1.combo, CHOOSE d \in names : TRUE)])
      ELSE v1

\* the values the configuration may hold for the last language and method
SavedLanguages == {"", SELECT_LANGUAGE, "Georgian", "Russian", "Klingon"}

SavedMethods ==
  {<<>>, <<"unknown">>} \cup
    {_module_to_method_name(m) : m \in {"ka_en_ic", "ru_cyr_en_gost_7_79_2000_system_b"}}

\* the texts the user types
UITexts == {<<>>, <<"CY_TSE">>, <<"ka_an", " ", "CY_TSE">>}

\* XlitToolController.__init__ up to _bind_events: the model is built on the
\* registry, the widgets are created (check box and method control
\* disabled), the languages are set, the methods are cleared
InitController ==
  /\ method = "none"
  /\ regex_patterns = <<>>
  /\ char_map = <<>>
  /\ body = <<>>
  /\ input = <<>>
  /\ call = "none"
  /\ pc = "constructed"
  /\ stmt = 0
  /\ src_text = <<>>
  /\ ri = 0
  /\ words = <<>>
  /\ outs = <<>>
  /\ result = <<>>
  /\ exc = "none"
  /\ trace = <<>>
  /\ lookups = <<>>
  /\ ncalls = 0
  /\ cache = <<>>
  /\ maxsize = LRU_MAXSIZE
  /\ NoModelCall
  /\ modules = ModelModules
  /\ package = TRUE
  /\ _registry_instance = 1
  /\ registries = <<ModelRegistry>>
  /\ threads = <<>>
  /\ discoveries = 1
  /\ op = <<>>
  /\ view = set_transliteration_methods(
              set_languages(NoView, get_languages(ModelRegistry)), <<>>, ModelRegistry)

\* self._view.restore_user_selections(), the last statement of __init__
RestoreSelections ==
  /\ pc = "constructed"
  /\ \E last_language \in SavedLanguages, last_method \in SavedMethods :
       view' = restore_user_selections(view, last_language, last_method)
  /\ pc' = "event_loop"
  /\ UNCHANGED <<module_vars, call_vars, stmt, src_text, ri, words, outs, cache_vars,
                 result, exc, trace, model_vars>>
  /\ UNCHANGED <<modules, package, _registry_instance, registries, threads, discoveries,
                 op>>

\* the user selects an item of the language control
LanguageChoice ==
  /\ pc = "event_loop"
  /\ \E i \in 1..Len(view.language_combo) :
       view' = _handle_language_change([view EXCEPT !.language = i])
  /\ UNCHANGED <<engine_vars, modules, package, _registry_instance, registries, threads,
                 discoveries, op>>

\* the user selects an item of the method control
MethodChoice ==
  /\ pc = "event_loop"
  /\ view.combo_enabled
  /\ \E i \in 1..Len(view.combo) :
       view' = _handle_combobox_change([view EXCEPT !.selection = i])
  /\ UNCHANGED <<engine_vars, modules, package, _registry_instance, registries, threads,
                 discoveries, op>>

\* the user clicks the check box; a disabled control takes no clicks
CheckBoxClick ==
  /\ pc = "event_loop"
  /\ view.checkbox_enabled
  /\ view' = [view EXCEPT !.checkbox = ~@]
  /\ UNCHANGED <<engine_vars, modules, package, _registry_instance, registries, threads,
                 discoveries, op>>

\* the user edits the input text
TextEntry ==
  /\ pc = "event_loop"
  /\ \E t \in UITexts : view' = [view EXCEPT !.text1 = t]
  /\ UNCHANGED <<engine_vars, modules, package, _registry_instance, registries, threads,
                 discoveries, op>>

\* _handle_clear: clear_texts()
ClearClick ==
  /\ pc = "event_loop"
  /\ view' = [view EXCEPT !.text1 = <<>>, !.text2 = <<>>]
  /\ UNCHANGED <<engine_vars, modules, package, _registry_instance, registries, threads,
                 discoveries, op>>

\* _handle_transliteration up to the call of the model: match_case is the
\* value of the check box and its enabled state
TransliterateClick ==
  /\ pc = "event_loop"
  /\ ncalls < MaxClicks
  /\ method_name' = get_selected_method(view)
  /\ raw_text' = view.text1
  /\ match_case' = (view.checkbox /\ view.checkbox_enabled)
  /\ sanitize_input' = TRUE
  /\ ret' = <<>>
  /\ call' = "none"
  /\ pc' = "idle"
  /\ stmt' = 0
  /\ src_text' = <<>>
  /\ ri' = 0
  /\ words' = <<>>
  /\ outs' = <<>>
  /\ result' = <<>>
  /\ exc' = "none"
  /\ ncalls' = ncalls + 1
  /\ UNCHANGED <<module_vars, input, trace, cache, maxsize, lookups, registry_vars>>

\* _handle_transliteration after the model has returned: the result is
\* shown, or the output is cleared on failure
ShowResult ==
  /\ pc = "returned"
  /\ view' = [view EXCEPT !.text2 = IF ret[1] THEN ret[2] ELSE <<>>]
  /\ pc' = "event_loop"
  /\ UNCHANGED <<module_vars, call_vars, stmt, src_text, ri, words, outs, cache_vars,
                 result, exc, trace, model_vars>>
  /\ UNCHANGED <<modules, package, _registry_instance, registries, threads, discoveries,
                 op>>

\* the events and the steps of the handlers.  The methods the window offers
\* are those of the language groups, which raise on none of the texts, so
\* the except clauses of the model are not entered.
NextController ==
  \/ RestoreSelections
  \/ LanguageChoice
  \/ MethodChoice
  \/ CheckBoxClick
  \/ TextEntry
  \/ ClearClick
  \/ TransliterateClick
  \/ ShowResult
  \/ ModelEnter
  \/ ApplyReplacements
  \/ RegexEnter
  \/ RegexStep
  \/ RegexReturn
  \/ TitleStatement
  \/ Return
  \/ CaseMatchWord
  \/ CaseMatchJoin
  \/ ModelReturn

SpecController == InitController /\ [][NextController]_vars

(***************************************************************************)
(* A caller that modifies the collection a lookup returned.  A new object  *)
(* is the caller's own; the object of a field is the registry's as well,   *)
(* so a change of it is a change of the field.                             *)
(***************************************************************************)
\* the names the caller adds or removes
CallerNames ==
  {_module_to_method_name("ru_cyr_en_bgn"), <<"unknown">>}

\* the lookups that return a collection
Collections ==
  {"get_all_methods", "get_method_names", "get_methods_by_language",
   "get_valid_method_names"}

\* list.append, set.add, dict[name] = value
Added(name, value, x) ==
  CASE name = "get_methods_by_language" -> Append(value, x)
    [] name = "get_all_methods" ->
         [n \in DOMAIN value \cup {x} |-> IF n = x THEN "caller" ELSE value[n]]
    [] OTHER -> value \cup {x}

\* list.remove, set.remove, del dict[name]
Removed(name, value, x) ==
  CASE name = "get_methods_by_language" ->
         LET i == IndexOf(value, x)
         IN  SubSeq(value, 1, i - 1) \o SubSeq(value, i + 1, Len(value))
    [] name = "get_all_methods" -> [n \in DOMAIN value \ {x} |-> value[n]]
    [] OTHER -> value \ {x}

\* the names in a collection
Members(name, value) ==
  CASE name = "get_methods_by_language" -> Elements(value)
    [] name = "get_all_methods" -> DOMAIN value
    [] OTHER -> value

\* clear()
Cleared(name) ==
  CASE name = "get_methods_by_language" -> <<>>
    [] name = "get_all_methods" -> EmptyDict
    [] OTHER -> {}

\* the caller appends to, removes from or clears the object it was handed
Modify ==
  /\ op.name \in Collections
  /\ \E value \in
          {Added(op.name, op.value, x) :
             x \in CallerNames \ Members(op.name, op.value)}
          \cup {Removed(op.name, op.value, x) :
                  x \in CallerNames \cap Members(op.name, op.value)}
          \cup {Cleared(op.name)} :
       /\ op' = [op EXCEPT !.value = value]
       /\ IF op.ref = "field"
          THEN registries' =
                 [registries EXCEPT
                    ![_registry_instance]._language_groups[op.args[1]] = value]
          ELSE UNCHANGED registries
  /\ UNCHANGED <<modules, package, _registry_instance, threads, discoveries, view>>
  /\ UNCHANGED engine_vars

NextCaller ==
  \/ NextLookup
  \/ Modify

SpecCaller == InitLookup /\ [][NextCaller]_vars

(***************************************************************************)
(* Properties.                                                             *)
(***************************************************************************)
IsPrefix(s, t) == Len(s) <= Len(t) /\ \A k \in 1..Len(s) : s[k] = t[k]

\* each substitution of the trace is applied to the text the previous one
\* produced, the first one to the text the caller passed
Chained ==
  \A k \in 1..Len(trace) :
    trace[k].before = (IF k = 1 THEN input ELSE trace[k - 1].after)

RuleOps(n) == [i \in 1..n |-> <<"rule", i>>]

\* the order of substitutions the methods are said to follow
ExpectedOps(m) ==
  CASE m \in {"ru_cyr_en_bgn", "uk_cyr_en_nat_standard"} ->
         RuleOps(Len(RegexPatternsOf(m))) \o << <<"map", 0>> >>
    [] m = "ru_cyr_en_gost_7_79_2000_system_b" ->
         << <<"map", 0>> >> \o RuleOps(Len(RegexPatternsOf(m)))
    [] m = "ka_en_ic" -> << <<"map", 0>> >>

IsSubstitution(e) == e.op \in {"rule", "map"}

AppliedOps ==
  LET subs == SelectSeq(trace, IsSubstitution)
  IN  [k \in 1..Len(subs) |-> <<subs[k].op, subs[k].idx>>]

\* C1: a call of a shipped method's transliterate applies its substitutions
\* in a fixed order, the character map exactly once: Russian BGN and
\* Ukrainian National Standard all their rules (in list order, on the source
\* text) and then the map, GOST 7.79-2000 B the map and then all its rules
\* on the output of the map; at no point of the call has a rule been applied
\* on the other side of the map.
C1_PhaseOrder ==
  call = "transliterate" =>
    /\ IsPrefix(AppliedOps, ExpectedOps(method))
    /\ Chained
    /\ pc = "done" => AppliedOps = ExpectedOps(method)

\* a GOST call has returned in which a rule rewrote the output of the map
C1_Witness ==
  /\ pc = "done"
  /\ call = "transliterate"
  /\ method = "ru_cyr_en_gost_7_79_2000_system_b"
  /\ \E k \in 2..Len(trace) :
       /\ trace[k].op = "rule"
       /\ trace[k].before # trace[k].after
       /\ trace[1].op = "map"
       /\ trace[1].before # trace[1].after

RECURSIVE Cuts(_)
\* the ways to cut a text of n characters into consecutive non-empty pieces,
\* each given as the list of the lengths of the pieces
Cuts(n) ==
  IF n = 0 THEN {<<>>}
  ELSE UNION {{<<l>> \o c : c \in Cuts(n - l)} : l \in 1..n}

RECURSIVE CutStart(_, _)
\* the position at which piece k of a cut starts
CutStart(cut, k) == IF k = 1 THEN 1 ELSE CutStart(cut, k - 1) + cut[k - 1]

Piece(text, cut, k) ==
  SubSeq(text, CutStart(cut, k), CutStart(cut, k) + cut[k] - 1)

IsKey(piece, replacements) ==
  \E j \in 1..Len(replacements) : replacements[j][1] = piece

ValueOf(piece, replacements) ==
  replacements[CHOOSE j \in 1..Len(replacements) : replacements[j][1] = piece][2]

SomeKeyAt(text, i, replacements) ==
  \E j \in 1..Len(replacements) : KeyMatches(text, i, replacements[j][1])

\* the cut is a left-to-right scan of the text: wherever a key occurs at the
\* start of a piece the piece is a key, elsewhere it is a single character
IsScan(text, cut, replacements) ==
  \A k \in 1..Len(cut) :
    IF SomeKeyAt(text, CutStart(cut, k), replacements)
    THEN IsKey(Piece(text, cut, k), replacements)
    ELSE cut[k] = 1

\* every piece that is a key replaced by its value, the others kept
ScanOutput(text, cut, replacements) ==
  Concat([k \in 1..Len(cut) |->
            IF IsKey(Piece(text, cut, k), replacements)
            THEN ValueOf(Piece(text, cut, k), replacements)
            ELSE Piece(text, cut, k)])

MapEntries == {k \in 1..Len(trace) : trace[k].op = "map"}

\* C2: apply_replacements returns the input cut into non-overlapping pieces
\* by one left-to-right scan, every piece that is a key replaced by its
\* value and every other character kept; the pieces are pieces of the input,
\* so text produced by a replacement is never matched again.
C2_SinglePass ==
  \A e \in MapEntries :
    \E cut \in Cuts(Len(trace[e].before)) :
      /\ IsScan(trace[e].before, cut, char_map)
      /\ trace[e].after = ScanOutput(trace[e].before, cut, char_map)

\* the map {a->b, b->c} applied to "ab" has returned "bc"
C2_Witness ==
  /\ pc = "done"
  /\ char_map = << << <<"a">>, <<"b">> >>, << <<"b">>, <<"c">> >> >>
  /\ input = <<"a", "b">>
  /\ result = <<"b", "c">>

\* of the keys that match at the start of piece k, the piece is the one
\* declared first
FirstDeclared(text, cut, replacements) ==
  \A k \in 1..Len(cut) :
    \A j, h \in 1..Len(replacements) :
      ( /\ replacements[j][1] = Piece(text, cut, k)
        /\ KeyMatches(text, CutStart(cut, k), replacements[h][1]) ) => j <= h

\* C3: where several keys match at the same position of the input (one is a
\* prefix of the other), apply_replacements applies the key declared first,
\* whatever its length.
C3_DeclarationOrder ==
  \A e \in MapEntries :
    \E cut \in Cuts(Len(trace[e].before)) :
      /\ IsScan(trace[e].before, cut, char_map)
      /\ FirstDeclared(trace[e].before, cut, char_map)
      /\ trace[e].after = ScanOutput(trace[e].before, cut, char_map)

\* the key "a" is declared before the key "ab", both match at the start of
\* the input, and only "a" was replaced
C3_Witness ==
  /\ pc = "done"
  /\ Len(char_map) = 2
  /\ char_map[1][1] = <<"a">>
  /\ char_map[2][1] = <<"a", "b">>
  /\ char_map[1][2] # char_map[2][2]
  /\ KeyMatches(input, 1, <<"a", "b">>)
  /\ IsPrefix(char_map[1][2] \o <<"b">>, result)

RuleEntries == {k \in 1..Len(trace) : trace[k].op = "rule"}

\* the loop of apply_regex_replacements has returned
LoopReturned == call = "transliterate" /\ pc \in {"body", "done"} /\ stmt > 1

\* C4: apply_regex_replacements applies the rules in list order, one at a
\* time: rule i rewrites the complete output of rule i-1 (rule 1 the input),
\* every rule is applied exactly once and the text returned is the output of
\* the last rule.
C4_RulePipeline ==
  body = <<"regex">> =>
    /\ \A k \in RuleEntries :
         /\ trace[k].idx = k
         /\ trace[k].before = (IF k = 1 THEN input ELSE trace[k - 1].after)
         /\ trace[k].after = PatternSub(regex_patterns[k], trace[k].before)
    /\ pc = "regex_loop" => Len(trace) = ri - 1
    /\ LoopReturned =>
         /\ Len(trace) = Len(regex_patterns)
         /\ src_text = (IF trace = <<>> THEN input ELSE trace[Len(trace)].after)

\* two rules were applied, both rewrote their input, and the second one
\* would have produced another text from the original input
C4_Witness ==
  /\ pc = "done"
  /\ body = <<"regex">>
  /\ Len(trace) = 2
  /\ trace[1].before # trace[1].after
  /\ trace[2].before # trace[2].after
  /\ PatternSub(regex_patterns[2], input) # result

CaseMatch == call = "transliterate_case_match"

\* a run of word characters (the tokens at the odd positions of words)
WordRun(w) == \A i \in 1..Len(w) : w[i] \in WordChars

\* a non-empty run of non-word characters (the tokens at the even positions)
NonWordRun(w) == w # <<>> /\ \A i \in 1..Len(w) : w[i] \notin WordChars

\* the token has a cased character and every cased character is uppercase
FullyUpper(w) ==
  /\ \E i \in 1..Len(w) : IsCased(w[i])
  /\ \A i \in 1..Len(w) : IsCased(w[i]) => w[i] \in UppercaseChars

NoLowercase(w) == \A i \in 1..Len(w) : w[i] \notin LowercaseChars

\* C5: in case-match mode the output of every word token whose cased
\* characters are all uppercase is the upper-cased method.transliterate of
\* the token and contains no lowercase letter; under BGN the digraphs Ts,
\* Shch, Ye come out as TS, SHCH, YE.
C5_UpperTokens ==
  CaseMatch =>
    \A k \in 1..Len(outs) :
      (WordRun(words[k]) /\ FullyUpper(words[k])) =>
        /\ outs[k] = Upper(transliterate(words[k]))
        /\ NoLowercase(outs[k])
        /\ method = "ru_cyr_en_bgn" =>
             /\ words[k] = <<"CY_TSE">> => outs[k] = <<"T", "S">>
             /\ words[k] = <<"CY_SHCHA">> => outs[k] = <<"S", "H", "C", "H">>
             /\ words[k] = <<"CY_IE">> => outs[k] = <<"Y", "E">>

\* a BGN call has returned for an uppercase word whose plain transliteration
\* holds lowercase letters
C5_Witness ==
  /\ pc = "done"
  /\ CaseMatch
  /\ method = "ru_cyr_en_bgn"
  /\ \E k \in 1..Len(outs) :
       /\ words[k] = <<"CY_IE", "CY_SHCHA">>
       /\ outs[k] = <<"Y", "E", "S", "H", "C", "H">>
       /\ ~NoLowercase(transliterate(words[k]))

\* C6: in case-match mode the output of every word token that is not fully
\* uppercase (lowercase, title case, mixed case, no cased character) is
\* method.transliterate of the token, its case untouched; under BGN the
\* mixed-case token of capital and small tse keeps the title-cased Ts.
C6_OtherTokens ==
  CaseMatch =>
    \A k \in 1..Len(outs) :
      (WordRun(words[k]) /\ ~FullyUpper(words[k])) =>
        /\ outs[k] = transliterate(words[k])
        /\ (method = "ru_cyr_en_bgn" /\ words[k] = <<"CY_TSE", "CY_IE", "cy_tse">>)
             => outs[k] = <<"T", "s", "E", "t", "s">>

\* a BGN call has returned for a mixed-case word and its output keeps both
\* cases
C6_Witness ==
  /\ pc = "done"
  /\ CaseMatch
  /\ method = "ru_cyr_en_bgn"
  /\ \E k \in 1..Len(outs) :
       /\ words[k] = <<"CY_TSE", "CY_IE", "cy_tse">>
       /\ outs[k] = <<"T", "s", "E", "t", "s">>
       /\ outs[k] # Upper(outs[k])

\* a non-empty word with a cased character and no uppercase one
LowercaseWord(w) ==
  /\ w # <<>>
  /\ WordRun(w)
  /\ \E i \in 1..Len(w) : IsCased(w[i])
  /\ \A i \in 1..Len(w) : IsCased(w[i]) => w[i] \in LowercaseChars

\* C7: for every method and every all-lowercase word, the call of
\* transliterate_case_match and the call of method.transliterate return the
\* same text.
C7_LowercaseAgreement ==
  (pc = "done" /\ LowercaseWord(input)) => result = transliterate(input)

\* a case-match call has returned for a lowercase word the method rewrites
\* into a digraph
C7_Witness ==
  /\ pc = "done"
  /\ CaseMatch
  /\ input = <<"cy_tse", "cy_ie">>
  /\ method = "ru_cyr_en_bgn"
  /\ result = <<"t", "s", "e">>

\* method.transliterate has been called on the token
MethodCalledOn(w) ==
  \E t \in 1..Len(trace) : trace[t].op = "method" /\ trace[t].before = w

\* C8 as stated: in case-match mode every non-word token is emitted
\* unchanged, for every shipped method (the underlying method, to which it
\* is said never to be passed, has no effect on it).
C8_Original ==
  CaseMatch =>
    \A k \in 1..Len(outs) : NonWordRun(words[k]) => outs[k] = words[k]

IsApostrophe(c) == c \in {"'", "rsquo"}

NotApostrophe(c) == ~IsApostrophe(c)

\* C8 (amended): in case-match mode every non-word token is passed through
\* the underlying method like a word token and its output is what the method
\* returns for it: under Ukrainian National Standard the token with its
\* apostrophes deleted, under the other shipped methods the token itself.
C8_NonWordTokens ==
  CaseMatch =>
    \A k \in 1..Len(outs) :
      NonWordRun(words[k]) =>
        /\ MethodCalledOn(words[k])
        /\ outs[k] = (IF FullyUpper(words[k])
                      THEN Upper(transliterate(words[k]))
                      ELSE transliterate(words[k]))
        /\ outs[k] = (IF method = "uk_cyr_en_nat_standard"
                      THEN SelectSeq(words[k], NotApostrophe)
                      ELSE words[k])

\* a Ukrainian call has returned in which a separator lost an apostrophe
C8_Witness ==
  /\ pc = "done"
  /\ CaseMatch
  /\ method = "uk_cyr_en_nat_standard"
  /\ \E k \in 1..Len(outs) :
       /\ NonWordRun(words[k])
       /\ \E i \in 1..Len(words[k]) : IsApostrophe(words[k][i])
       /\ outs[k] # words[k]
       /\ result # input

\* the tokens alternate: word runs at the odd positions (empty only at the
\* two ends), non-empty non-word runs at the even positions
Alternates(list) ==
  /\ Len(list) % 2 = 1
  /\ \A k \in 1..Len(list) :
       IF k % 2 = 1
       THEN WordRun(list[k]) /\ (list[k] = <<>> => k \in {1, Len(list)})
       ELSE NonWordRun(list[k])

\* C9: the output of transliterate_case_match is the concatenation, in the
\* original order, of exactly one output per token: the tokens alternate
\* word run / non-word run, joined they are the input, and output k is the
\* output of token k.
C9_Concatenation ==
  CaseMatch =>
    /\ Concat(words) = input
    /\ Alternates(words)
    /\ Len(outs) <= Len(words)
    /\ \A k \in 1..Len(outs) :
         outs[k] = (IF FullyUpper(words[k])
                    THEN Upper(transliterate(words[k]))
                    ELSE transliterate(words[k]))
    /\ pc = "done" => (Len(outs) = Len(words) /\ result = Concat(outs))

\* a call has returned for two different words around a separator
C9_Witness ==
  /\ pc = "done"
  /\ CaseMatch
  /\ Len(words) = 3
  /\ words[1] # <<>>
  /\ words[3] # <<>>
  /\ outs[1] # outs[3]
  /\ result = outs[1] \o outs[2] \o outs[3]
  /\ result # input

\* C10: for every shipped method the call with the empty text, direct or
\* through transliterate_case_match, does not raise and returns the empty
\* text.
C10_EmptyText ==
  input = <<>> =>
    /\ pc # "raised"
    /\ exc = "none"
    /\ pc = "done" => result = <<>>
    /\ pc # "done" => ENABLED Next

\* the case-match call with the empty text has returned
C10_Witness ==
  /\ pc = "done"
  /\ CaseMatch
  /\ input = <<>>
  /\ words = << <<>> >>

\* the statement-by-statement run and the function agree
StepwiseAgrees ==
  (pc = "done" /\ call = "transliterate") => result = transliterate(input)

(***************************************************************************)
(* C11: characters outside a method's alphabet.                            *)
(***************************************************************************)
\* no key of the method's map and no rule of the method matches anywhere
\* in the text
OutsideAlphabet(text) ==
  /\ \A i \in 1..Len(text) : FirstKey(text, i, char_map) = 0
  /\ \A r \in 1..Len(regex_patterns) :
       \A i \in 1..Len(text) : ~RuleMatches(regex_patterns[r], text, i)

\* C11: for every shipped method, transliterating a text made only of
\* characters outside the method's alphabet (no map key, no rule match)
\* returns the text unchanged.
C11_PassThrough ==
  (call = "transliterate" /\ pc = "done" /\ OutsideAlphabet(input))
    => result = input

(***************************************************************************)
(* C12: the order of the GOST rules matters.                               *)
(***************************************************************************)
\* the four GOST rules with the two bare rules moved before the two
\* context rules
BareRulesFirst(rules) == <<rules[3], rules[4], rules[1], rules[2]>>

\* what the GOST body returns when its rule list is in the swapped order
SwappedResult(text) ==
  apply_regex_replacements(apply_replacements(text, char_map),
                           BareRulesFirst(regex_patterns))

CyrillicFront ==
  {"cy_i", "cy_ie", "cy_yeru", "cy_short_i", "CY_I", "CY_IE", "CY_YERU", "CY_SHORT_I"}

\* a tse directly followed by one of the letters the map turns into
\* i, e, y or j
TseBeforeFront(text) ==
  \E i \in 1..(Len(text) - 1) :
    text[i] \in {"cy_tse", "CY_TSE"} /\ text[i + 1] \in CyrillicFront

\* C12: for GOST 7.79-2000 B the declared rule order (context rules, then
\* bare rules) and the swapped order return different texts for every input
\* with a tse before i, ie, yeru or short i; the declared order turns
\* tse-i into "ci" and the swapped order turns it into "czi".
C12_OrderMatters ==
  ( /\ method = "ru_cyr_en_gost_7_79_2000_system_b"
    /\ call = "transliterate"
    /\ pc = "done"
    /\ TseBeforeFront(input) )
    => /\ result # SwappedResult(input)
       /\ input = <<"cy_tse", "cy_i">>
            => result = <<"c", "i">> /\ SwappedResult(input) = <<"c", "z", "i">>

\* the GOST call on tse-i has returned "ci"
C12_Witness ==
  /\ method = "ru_cyr_en_gost_7_79_2000_system_b"
  /\ call = "transliterate"
  /\ pc = "done"
  /\ input = <<"cy_tse", "cy_i">>
  /\ result = <<"c", "i">>
  /\ SwappedResult(input) = <<"c", "z", "i">>

(***************************************************************************)
(* C13: a token on which the method raises fails the whole call.           *)
(***************************************************************************)
\* the method raises on some token of the call
SomeTokenRaises ==
  \E k \in 1..Len(words) : BodyRaises(body, words[k])

\* C13: when the method raises on any token, transliterate_case_match does
\* not return: the call ends raised with a RuntimeError and no result,
\* whatever outputs the earlier tokens already have.
C13_NoPartialResult ==
  CaseMatch =>
    /\ SomeTokenRaises => pc # "done" /\ result = <<>>
    /\ pc = "raised" => exc = "RuntimeError" /\ result = <<>> /\ SomeTokenRaises

\* the call raised on its third token after two tokens had their outputs
C13_Witness ==
  /\ CaseMatch
  /\ pc = "raised"
  /\ exc = "RuntimeError"
  /\ Len(outs) = 2
  /\ outs[1] = <<"c">>
  /\ BodyRaises(body, words[3])
  /\ result = <<>>

(***************************************************************************)
(* C14: XlitToolModel.transliterate reports failures and never raises.     *)
(***************************************************************************)
\* the text the engine is given
EffectiveText ==
  IF sanitize_input /\ raw_text # None THEN sanitize_text(raw_text) ELSE raw_text

\* the registry has no method of that name
UnknownMethod == method_name \notin DOMAIN ModelRegistry._methods

\* the text is None, empty or blank
InvalidText ==
  \/ raw_text = None
  \/ \A i \in 1..Len(EffectiveText) : EffectiveText[i] \in Whitespace

\* the engine raises on the text: the method itself in a direct call, the
\* method on some token in a case-match call
EngineRaises ==
  /\ ~UnknownMethod
  /\ ~InvalidText
  /\ LET stmts == BodyOf(ModelRegistry._methods[method_name])
     IN  IF match_case
         THEN \E k \in 1..Len(Split(EffectiveText)) :
                BodyRaises(stmts, Split(EffectiveText)[k])
         ELSE BodyRaises(stmts, EffectiveText)

\* the transliteration of the whole text in the mode asked for
FullTransliteration ==
  IF match_case
  THEN Concat([k \in 1..Len(Split(EffectiveText)) |->
                 translit_word_cm(Split(EffectiveText)[k])])
  ELSE transliterate(EffectiveText)

\* what the claim says of a returned call
ReportedAsClaimed ==
  pc = "returned" =>
    /\ Len(ret) = 4
    /\ ret[1] = ~(UnknownMethod \/ InvalidText \/ EngineRaises)
    /\ ~ret[1] => ret[2] = <<>> /\ ret[3] # <<>>
    /\ ret[1] => ret[3] = <<>> /\ ret[2] = FullTransliteration

\* C14: XlitToolModel.transliterate reports an unknown method name, an
\* invalid text or an exception of the engine as success = False with the
\* empty result and a non-empty error message, and success = True comes
\* with the empty error message and the transliteration of the whole
\* sanitized text; an exception of the engine does not leave the call: the
\* only step after it is the return of a failure tuple.
C14_FailuresReported ==
  /\ []ReportedAsClaimed
  /\ [][pc = "raised" => pc' = "returned" /\ ~ret'[1]]_vars

\* a case-match call of the model has failed on a later token of the text
C14_Witness ==
  /\ pc = "returned"
  /\ match_case
  /\ EngineRaises
  /\ outs # <<>>
  /\ ret = <<FALSE, <<>>, <<"An unexpected error occurred during transliteration">>, <<>> >>

\* the object of thread t breaks one of the three rules
HasViolation(t) ==
  LET self == registries[threads[t].self]
  IN  \/ \E m \in DOMAIN self._methods : m \notin DOMAIN self._display_names
      \/ \E l \in DOMAIN self._language_groups :
           \E k \in 1..Len(self._language_groups[l]) :
             self._language_groups[l][k] \notin DOMAIN self._methods
      \/ \E m \in self._no_case_match : m \notin DOMAIN self._methods

\* C15: when the validation pass of a registry object finds violations (a
\* method without display name, a member of a language group or of the
\* no-case set that is no method), the one error raised lists every one of
\* them, and the call does not store the object in the global.
C15_AllViolationsListed ==
  \A t \in Threads :
    (threads[t].pc \in {"failed", "assign", "return", "done"}
     /\ threads[t].self # 0 /\ HasViolation(t)) =>
      LET self == registries[threads[t].self]
          errors == threads[t].errors
      IN  /\ threads[t].pc = "failed"
          /\ _registry_instance # threads[t].self
          /\ \A m \in DOMAIN self._methods :
               m \notin DOMAIN self._display_names =>
                 [kind |-> "display", language |-> "", method |-> m] \in errors
          /\ \A l \in DOMAIN self._language_groups :
               \A k \in 1..Len(self._language_groups[l]) :
                 self._language_groups[l][k] \notin DOMAIN self._methods =>
                   [kind |-> "language", language |-> l,
                    method |-> self._language_groups[l][k]] \in errors
          /\ \A m \in self._no_case_match :
               m \notin DOMAIN self._methods =>
                 [kind |-> "no_case", language |-> "", method |-> m] \in errors

\* a validation that failed with violations of all three kinds, nothing
\* published
C15_Witness ==
  /\ threads[1].pc = "failed"
  /\ \A kind \in {"display", "language", "no_case"} :
       \E e \in threads[1].errors : e.kind = kind
  /\ Cardinality(threads[1].errors) >= 3
  /\ _registry_instance = 0

\* C16: Failed is terminal: a call of get_method_registry that starts after
\* a call has failed runs no discovery and stores no registry in the
\* global.
C16_FailedIsTerminal ==
  [][\A t \in Threads :
       threads[t].after = "failure" =>
         /\ ~(threads[t].pc = "discover" /\ threads'[t].pc # "discover")
         /\ ~(threads[t].pc = "assign" /\ threads'[t].pc # "assign")]_vars

\* C17: once a call of get_method_registry has returned a registry, every
\* call that starts later goes straight to the return statement (no
\* discovery, no validation) and returns that same instance.
C17_ReadyIsStable ==
  \A t \in Threads :
    threads[t].seen # {} =>
      /\ threads[t].pc \in {"return", "done"}
      /\ threads[t].pc = "done" => threads[t].seen = {threads[t].ret}

\* C18: whatever the interleaving of the threads' first calls of
\* get_method_registry, _discover_methods runs at most once in the process
\* and all these calls return the same instance.
C18_OneDiscovery ==
  (\A t \in Threads : ~threads[t].failed /\ threads[t].calls <= 1) =>
    /\ discoveries <= 1
    /\ \A t, u \in Threads :
         threads[t].pc = "done" /\ threads[u].pc = "done" =>
           threads[t].ret = threads[u].ret

\* the language groups of the registry that hold the method
GroupsOf(self, name) ==
  {l \in DOMAIN self._language_groups :
     \E k \in 1..Len(get_methods_by_language(self, l)) :
       get_methods_by_language(self, l)[k] = name}

\* C19: in a registry returned by get_method_registry, every name of
\* get_method_names() has a non-empty display name, is in exactly one
\* language group and has a boolean case-match eligibility, also when its
\* module has no entry in module_mapping.
C19_RegistryIntegrity ==
  \A t \in Threads :
    threads[t].pc = "done" =>
      LET self == registries[threads[t].ret]
      IN  \A name \in get_method_names(self) :
            /\ get_display_name(self, name) # <<>>
            /\ Cardinality(GroupsOf(self, name)) = 1
            /\ should_enable_case_match(self, name) \in BOOLEAN

\* lookups i and j are of the same (word, method) pair
SamePair(i, j) ==
  lookups[i].word = lookups[j].word /\ lookups[i].method = lookups[j].method

\* the other pairs looked up with a result strictly between lookups i and j
OthersBetween(i, j) ==
  {<<lookups[k].word, lookups[k].method>> :
     k \in {n \in (i + 1)..(j - 1) : lookups[n].outcome # "raise" /\ ~SamePair(n, i)}}

\* lookup i is the last one of its pair before lookup j, and gave a result
LastUse(i, j) ==
  /\ i < j
  /\ SamePair(i, j)
  /\ lookups[i].outcome # "raise"
  /\ \A n \in (i + 1)..(j - 1) : ~SamePair(n, i)

\* C20 as stated: once the underlying method has given a result for a
\* (word, method) pair, no later lookup of the pair calls the underlying
\* method again, whatever was looked up in between.
C20_NeverRecomputed ==
  \A i, j \in 1..Len(lookups) :
    (i < j /\ SamePair(i, j) /\ lookups[i].outcome # "raise") =>
      lookups[j].outcome = "hit"

\* C20 amended: an entry is retained while it is among the maxsize most
\* recently used ones: a lookup of a pair calls the underlying method again
\* only if at least maxsize other pairs were looked up with a result since
\* the pair was last looked up (with a result).
C20_RetainedWhileRecent ==
  \A i, j \in 1..Len(lookups) :
    (LastUse(i, j) /\ Cardinality(OthersBetween(i, j)) < maxsize) =>
      lookups[j].outcome = "hit"

\* a pair found in the cache although maxsize - 1 other pairs, one of them
\* under the other method, were looked up since its last use, which was a
\* hit itself
C20_Witness ==
  \E i, j \in 1..Len(lookups) :
    /\ LastUse(i, j)
    /\ lookups[i].outcome = "hit"
    /\ lookups[j].outcome = "hit"
    /\ Cardinality(OthersBetween(i, j)) = maxsize - 1
    /\ \E k \in (i + 1)..(j - 1) : lookups[k].method # lookups[i].method

\* C21: apply_replacements with an empty character map fails (InvalidMap)
\* and returns no text: the statement of a method body that applies an
\* empty map to a text is never completed and the call never returns.
C21_EmptyMapFails ==
  (body = <<"map">> /\ char_map = <<>> /\ call = "transliterate"
   /\ input # <<>>) =>
    /\ stmt = 1
    /\ pc # "done"

\* the rule is defective: its pattern is not compiled, or its template
\* names a group beyond those of the pattern
Defective(rule) ==
  \/ ~rule.compiled
  \/ GROUP2 \in {rule.repl[k] : k \in 1..Len(rule.repl)}
  \/ rule.group = 0 /\ GROUP1 \in {rule.repl[k] : k \in 1..Len(rule.repl)}

\* the defective rule matches nowhere in the text
MatchesNowhere(rule, text) ==
  \A i \in 1..Len(text) : \E k \in 1..Len(rule.pat) :
    i + k - 1 > Len(text) \/ text[i + k - 1] \notin rule.pat[k]

\* C22: when some rule of the list is defective, apply_regex_replacements
\* returns no text to its caller, whether or not the defective rule matches
\* the text and although the rules before it were applied: the loop raises
\* RuntimeError when it comes to the first defective rule.
C22_DefectiveRuleFails ==
  /\ []((/\ method = "defect"
         /\ \E i \in 1..Len(regex_patterns) : Defective(regex_patterns[i]))
        => (pc # "done" /\ result = <<>> /\ stmt <= 1
            /\ (pc = "raised" => exc = "RuntimeError")))
  /\ [][(/\ method = "defect"
         /\ pc = "regex_loop"
         /\ ri <= Len(regex_patterns)
         /\ Defective(regex_patterns[ri]))
        => (pc' = "raised" /\ result' = <<>>)]_vars

\* the loop has raised on a defective second rule that matches nowhere in
\* the text, after the first rule rewrote the text
C22_Witness ==
  /\ method = "defect"
  /\ pc = "raised"
  /\ ri = 2
  /\ regex_patterns[2].compiled
  /\ MatchesNowhere(regex_patterns[2], src_text)
  /\ src_text # input
  /\ result = <<>>

\* the value a character map gives a character (the character itself when
\* it is no key)
Rendered(map, c) ==
  IF \E j \in 1..Len(map) : map[j][1] = <<c>>
  THEN map[CHOOSE j \in 1..Len(map) : map[j][1] = <<c>>][2]
  ELSE <<c>>

\* the Russian consonant letters of the BGN rule, in either case
RussianConsonants ==
  {"cy_be", "cy_ve", "cy_ghe", "cy_de", "cy_zhe", "cy_ze", "cy_ka", "cy_el",
   "cy_em", "cy_en", "cy_pe", "cy_er", "cy_es", "cy_te", "cy_ef", "cy_ha",
   "cy_tse", "cy_che", "cy_sha", "cy_shcha",
   "CY_BE", "CY_VE", "CY_GHE", "CY_DE", "CY_ZHE", "CY_ZE", "CY_KA", "CY_EL",
   "CY_EM", "CY_EN", "CY_PE", "CY_ER", "CY_ES", "CY_TE", "CY_EF", "CY_HA",
   "CY_TSE", "CY_CHE", "CY_SHA", "CY_SHCHA"}

\* what BGN renders the character at position i of the text as
BGNRendering(text, i) ==
  LET c == text[i]
      afterConsonant == i > 1 /\ text[i - 1] \in RussianConsonants
  IN  CASE c = "cy_ie" -> IF afterConsonant THEN <<"e">> ELSE <<"y", "e">>
        [] c = "CY_IE" -> IF afterConsonant THEN <<"E">> ELSE <<"Y", "e">>
        [] c = "cy_io" ->
             IF afterConsonant THEN <<"e_diaeresis">> ELSE <<"y", "e_diaeresis">>
        [] c = "CY_IO" ->
             IF afterConsonant THEN <<"E_DIAERESIS">> ELSE <<"Y", "e_diaeresis">>
        [] OTHER -> Rendered(bgn_char_map, c)

\* C23: under Russian BGN the letters ie and io are rendered e, E and
\* e-diaeresis exactly when a Russian consonant letter comes immediately
\* before them, and ye, Ye, y+e-diaeresis in every other position; every
\* other character, the consonant before the vowel included, is rendered
\* as the character map says.
C23_BGNContextRule ==
  (method = "ru_cyr_en_bgn" /\ call = "transliterate" /\ pc = "done") =>
    result = Concat([i \in 1..Len(input) |-> BGNRendering(input, i)])

\* a returned call on a text with ie after a consonant, after another ie
\* and after the soft sign or short i
C23_Witness ==
  /\ method = "ru_cyr_en_bgn"
  /\ call = "transliterate"
  /\ pc = "done"
  /\ Len(input) = 3
  /\ input[1] \in RussianConsonants
  /\ input[2] \in {"cy_ie", "cy_io"}
  /\ input[3] \in {"cy_ie", "CY_IO"}
  /\ result[Len(result) - 1] \in {"y", "Y"}

\* what GOST 7.79-2000 B renders the character at position i of the output
\* of the character map as
GOSTRendering(mapped, i) ==
  LET c == mapped[i]
      beforeFront == /\ i < Len(mapped)
                     /\ mapped[i + 1] \in {"i", "e", "y", "j", "I", "E", "Y", "J"}
  IN  CASE c = "cy_tse" -> IF beforeFront THEN <<"c">> ELSE <<"c", "z">>
        [] c = "CY_TSE" -> IF beforeFront THEN <<"C">> ELSE <<"C", "z">>
        [] OTHER -> <<c>>

\* C24: under GOST 7.79-2000 B the letter tse is rendered c (C) exactly
\* when the character after it in the output of the character map is one
\* of i, e, y, j in either case, and cz (Cz) in every other position, the
\* end of the text and the position before a non-letter included; no tse
\* is left in the result.
C24_GOSTTse ==
  (method = "ru_cyr_en_gost_7_79_2000_system_b" /\ call = "transliterate"
   /\ pc = "done") =>
    LET mapped == apply_replacements(input, gost_char_map)
    IN  /\ result = Concat([i \in 1..Len(mapped) |-> GOSTRendering(mapped, i)])
        /\ \A k \in 1..Len(result) : result[k] \notin {"cy_tse", "CY_TSE"}

\* a returned call on a text with tse before an upper-case E, before a
\* non-letter and at the end
C24_Witness ==
  /\ method = "ru_cyr_en_gost_7_79_2000_system_b"
  /\ call = "transliterate"
  /\ pc = "done"
  /\ input = <<"CY_TSE", "CY_IE", "cy_tse">>
  /\ result = <<"C", "E", "c", "z">>

Apostrophes == {"'", "rsquo"}

\* position i is the first character of a word: no word character comes
\* before it, an apostrophe that follows a letter being inside the word
WordInitial(text, i) ==
  \/ i = 1
  \/ /\ text[i - 1] \notin WordChars
     /\ ~(/\ text[i - 1] \in Apostrophes
          /\ i > 2
          /\ text[i - 2] \in WordChars \ {"1", "_"})

\* the word-beginning forms of the Ukrainian National Standard
InitialForm(c) ==
  CASE c = "CY_UKRAINIAN_IE" -> <<"Y", "e">>
    [] c = "cy_ukrainian_ie" -> <<"y", "e">>
    [] c = "CY_YU" -> <<"Y", "u">>
    [] c = "cy_yu" -> <<"y", "u">>
    [] c = "CY_YA" -> <<"Y", "a">>
    [] c = "cy_ya" -> <<"y", "a">>
    [] c = "CY_YI" -> <<"Y", "i">>
    [] c = "cy_yi" -> <<"y", "i">>
    [] c = "CY_SHORT_I" -> <<"Y">>
    [] c = "cy_short_i" -> <<"y">>

\* what the Ukrainian National Standard renders the character at position
\* i of the text as (ghe after ze is gh, not h)
UKRendering(text, i) ==
  LET c == text[i]
  IN  IF c \in {"CY_UKRAINIAN_IE", "cy_ukrainian_ie", "CY_YU", "cy_yu", "CY_YA",
                "cy_ya", "CY_YI", "cy_yi", "CY_SHORT_I", "cy_short_i"}
         /\ WordInitial(text, i)
      THEN InitialForm(c)
      ELSE IF c = "cy_ghe" /\ i > 1 /\ text[i - 1] \in {"cy_ze", "CY_ZE"}
      THEN <<"g", "h">>
      ELSE Rendered(uk_char_map, c)

\* C25: under the Ukrainian National Standard the letters ie, yu, ya, yi
\* and short i take their word-beginning forms only as the first character
\* of a word and the forms of the character map in every other position,
\* directly after an apostrophe inside a word included; the apostrophe is
\* dropped.
C25_WordInitialForms ==
  (method = "uk_cyr_en_nat_standard" /\ call = "transliterate" /\ pc = "done") =>
    result = Concat([i \in 1..Len(input) |-> UKRendering(input, i)])

\* the method names of the modules that import
Imported == {_module_to_method_name(m) : m \in modules}

\* every name a lookup of the registry can answer with
LookedUp(self) ==
  DOMAIN self._methods
  \cup UNION {Elements(self._language_groups[l]) : l \in DOMAIN self._language_groups}
  \cup DOMAIN self._display_names
  \cup self._no_case_match
  \cup DOMAIN self._method_to_language

C27_DisplayNameRoundTrip ==
  /\ \A language \in DOMAIN TheRegistry._language_groups :
       \A m \in Elements(get_methods_by_language(TheRegistry, language)) :
         get_method_from_display_name(
           TheRegistry, get_display_name(TheRegistry, m), language) = m
  /\ (/\ op.name = "get_method_from_display_name"
      /\ \E m \in Elements(get_methods_by_language(TheRegistry, op.args[2])) :
           get_display_name(TheRegistry, m) = op.args[1]) =>
       /\ op.value \in Elements(get_methods_by_language(TheRegistry, op.args[2]))
       /\ get_display_name(TheRegistry, op.value) = op.args[1]

\* with every mapped module imported (IC is the display name of a method in
\* fifteen groups), the lookup of IC among the Ukrainian methods has
\* returned the Ukrainian one
C27_Witness ==
  /\ modules = MappedModules
  /\ op.name = "get_method_from_display_name"
  /\ op.args = <<<<"IC">>, "Ukrainian">>
  /\ op.value = _module_to_method_name("uk_cyr_en_ic")

\* C28: the cache is transparent.  In every call of
\* transliterate_case_match, whatever calls were made before it on whatever
\* methods, the output of each token is what translit_word_cm computes for
\* the token and the method of this call (so a result stored for the same
\* word under another method is never used, and the same text and method
\* always give the same output), the call raises only when the computation
\* raises on one of its tokens, and a call that returns returns the
\* concatenation of the computed outputs.
C28_CacheTransparent ==
  CaseMatch =>
    /\ \A k \in 1..Len(outs) : outs[k] = translit_word_cm(words[k])
    /\ pc = "raised" => SomeTokenRaises
    /\ pc = "done" =>
         /\ ~SomeTokenRaises
         /\ result = Concat([k \in 1..Len(words) |-> translit_word_cm(words[k])])

\* a later call has returned after a hit, while the cache also holds the
\* same word under the other method with another result
C28_Witness ==
  /\ CaseMatch
  /\ pc = "done"
  /\ ncalls > 1
  /\ lookups[Len(lookups)].outcome = "hit"
  /\ \E i, k \in 1..Len(cache) :
       /\ cache[i].word = cache[k].word
       /\ cache[i].word = lookups[Len(lookups)].word
       /\ cache[i].method # cache[k].method
       /\ cache[i].value # cache[k].value

\* the method selected in the window
SelectedMethod == get_selected_method(view)

\* C29: whatever events the window has handled (restore of the saved
\* selections, language and method choices, clicks on the check box, edits,
\* clicks on Transliterate), an enabled check box means that the selected
\* method is a registered method outside the no-case-match set, the
\* match_case argument passed to the model is the conjunction of the check
\* box's value and its enabled state, and no case-match transliteration runs
\* for a method of the no-case-match set.
C29_NoCaseMatchForExcluded ==
  /\ view.checkbox_enabled =>
       /\ SelectedMethod \in DOMAIN TheRegistry._methods
       /\ SelectedMethod \notin TheRegistry._no_case_match
  /\ pc \notin {"constructed", "event_loop"} =>
       /\ method_name = SelectedMethod
       /\ match_case = (view.checkbox /\ view.checkbox_enabled)
  /\ match_case => method_name \notin TheRegistry._no_case_match
  /\ CaseMatch => method_name \notin TheRegistry._no_case_match

\* the check box is checked but disabled, a method of the no-case-match set
\* is selected, and the click on Transliterate has run the method without
\* case matching and shown a result
C29_Witness ==
  /\ pc = "event_loop"
  /\ view.checkbox
  /\ ~view.checkbox_enabled
  /\ SelectedMethod \in TheRegistry._no_case_match
  /\ method_name = SelectedMethod
  /\ call = "transliterate"
  /\ ret # <<>>
  /\ ret[1]
  /\ view.text2 # <<>>

\* the answers of the lookups of a registry
Answers(self) ==
  [all_methods |-> get_all_methods(self),
   method_names |-> get_method_names(self),
   valid_method_names |-> get_valid_method_names(self),
   by_language |-> [l \in LookupLanguages |-> get_methods_by_language(self, l)],
   display_name |-> [n \in LookupNames |-> get_display_name(self, n)],
   from_display_name |->
     [n \in LookupNames |->
        [l \in LookupLanguages |->
           get_method_from_display_name(self, DisplayNameOf(n), l)]],
   case_match |-> [n \in LookupNames |-> should_enable_case_match(self, n)]]

\* C30: whatever a caller does to the collections that get_all_methods,
\* get_method_names, get_methods_by_language and get_valid_method_names
\* returned, every lookup of the registry answers as it did when the
\* registry was built.
C30_ValuesCannotMutate == Answers(TheRegistry) = Answers(Populated(modules))

====
